---- MODULE Spec2Model ----
(***************************************************************************)
(* Clinical trial matcher: the match scorer (matching.py), the trial      *)
(* ranker and batch matcher (matching.py) and the false-positive /        *)
(* false-negative evaluation (evaluate_fp_fn.py).                          *)
(*                                                                         *)
(* Strings that the code compares character by character (the condition   *)
(* names) are sequences of one-letter strings; keywords are interned as    *)
(* small integers; a cell of a list-typed column is a record               *)
(* [kind, items] that says what Python value the cell holds.               *)
(***************************************************************************)
EXTENDS Integers, Sequences, FiniteSets, TLC

VARIABLES
    pc,          \* position of the running operation
    patient,     \* the patient row handed to calculate_match_score / is_valid_match
    trial,       \* the trial row handed to calculate_match_score / is_valid_match
    hashOrder,   \* iteration order of this process's string sets (hash seed)
    res,         \* what calculate_match_score returned
    arg,         \* the score argument of is_valid_match
    valid,       \* is_valid_match results, per strict flag
    trials,      \* trials_df: the trial rows in frame order
    top_k,       \* match_patient_to_trials argument
    min_score,   \* match_patient_to_trials argument
    idx,         \* loop index of the running for-loop
    matches,     \* match_patient_to_trials: the local list `matches`
    ranked,      \* match_patient_to_trials: the returned list
    patients,    \* patients_df: the patient rows in frame order
    all_matches, \* match_all_patients: the mapping under construction / matches.json
    ev           \* evaluate_matches_with_fp_fn: its locals

vars == <<pc, patient, trial, hashOrder, res, arg, valid, trials, top_k, min_score,
          idx, matches, ranked, patients, all_matches, ev>>

----------------------------------------------------------------------------
(* Bounds of the model *)

\* keywords are 1..MaxKw
MaxKw == 6
\* at most MaxTrials rows in trials_df
MaxTrials == 3
\* at most MaxPatients rows in patients_df
MaxPatients == 2
\* top_k ranges over 0..MaxTopK
MaxTopK == 3

(* Program constants *)

AgePoints == 20
GenderPoints == 10
PointsPerKeyword == 10
KeywordCap == 50
ConditionPoints == 20
ConditionReasonFloor == 5
SampleSize == 3
DefaultTopK == 10
DefaultMinScore == 20
StrictScore == 60
LenientScore == 50
StrictKeywords == 2
NotRecommendedSample == 10
NegativeSample == 10
RejectBelow == 40

----------------------------------------------------------------------------
(* Generic helpers *)

Min(a, b) == IF a <= b THEN a ELSE b

Range(s) == {s[i] : i \in DOMAIN s}

\* <<a, a+1, ..., b>>
Interval(a, b) == [i \in 1..(b - a + 1) |-> a + i - 1]

\* str.upper() on the gender strings of the model
Upper(s) ==
    CASE s \in {"male", "Male", "MALE"} -> "MALE"
      [] s \in {"female", "Female", "FEMALE"} -> "FEMALE"
      [] s \in {"all", "All", "ALL"} -> "ALL"
      [] OTHER -> s

\* str.lower() on one character
LowerChar(c) ==
    CASE c = "A" -> "a"
      [] c = "B" -> "b"
      [] c = "D" -> "d"
      [] c = "N" -> "n"
      [] c = "T" -> "t"
      [] c = "M" -> "m"
      [] OTHER -> c

\* str.lower()
Lower(s) == [i \in DOMAIN s |-> LowerChar(s[i])]

\* str(float('nan')): what str() makes of an empty CSV cell
NanText == <<"n", "a", "n">>

----------------------------------------------------------------------------
(* Cells of list-typed columns and safe_eval_list *)

ListCell(items) == [kind |-> "list", items |-> items]
StrListCell(items) == [kind |-> "strlist", items |-> items]
StrBadCell == [kind |-> "strbad", items |-> <<>>]
StrNumCell == [kind |-> "strnum", items |-> <<>>]
NanCell == [kind |-> "nan", items |-> <<>>]
\* the row has no such key
AbsentCell == [kind |-> "absent", items |-> <<>>]

\* row[key] raises KeyError
KeyMissing(cell) == cell.kind = "absent"

\* safe_eval_list: a list is returned as it is; a string is handed to
\* ast.literal_eval, whose value is returned whatever its type (a list for a
\* list literal, a number for a number literal) and whose exception gives [];
\* anything else gives [].
safe_eval_list(value) ==
    CASE value.kind = "list" -> [islist |-> TRUE, items |-> value.items]
      [] value.kind = "strlist" -> [islist |-> TRUE, items |-> value.items]
      [] value.kind = "strnum" -> [islist |-> FALSE, items |-> <<>>]
      [] OTHER -> [islist |-> TRUE, items |-> <<>>]

\* list(s) for a set s of this process: the elements in hash order
ListOfSet(s, order) == SelectSeq(order, LAMBDA k : k \in s)

----------------------------------------------------------------------------
(* difflib.SequenceMatcher(None, a, b).ratio(), as the pair (M, T) *)

\* find_longest_match: the longest block a[i:i+k] = b[j:j+k] inside the
\* windows, the one starting earliest in a, then earliest in b (0-based)
LongestMatch(a, b, alo, ahi, blo, bhi) ==
    LET Cands == {c \in (alo..(ahi - 1)) \X (blo..(bhi - 1)) \X (1..Min(ahi - alo, bhi - blo)) :
                     /\ c[1] + c[3] <= ahi
                     /\ c[2] + c[3] <= bhi
                     /\ \A d \in 0..(c[3] - 1) : a[c[1] + d + 1] = b[c[2] + d + 1]}
    IN IF Cands = {} THEN <<alo, blo, 0>>
       ELSE CHOOSE c \in Cands : \A o \in Cands :
                \/ c[3] > o[3]
                \/ c[3] = o[3] /\ c[1] < o[1]
                \/ c[3] = o[3] /\ c[1] = o[1] /\ c[2] <= o[2]

\* get_matching_blocks: the total size of the blocks found by splitting
\* around the longest match, left and right
RECURSIVE MatchingSize(_, _, _, _, _, _)
MatchingSize(a, b, alo, ahi, blo, bhi) ==
    LET m == LongestMatch(a, b, alo, ahi, blo, bhi)
        i == m[1]
        j == m[2]
        k == m[3]
    IN IF k = 0 THEN 0
       ELSE k + (IF alo < i /\ blo < j THEN MatchingSize(a, b, alo, i, blo, j) ELSE 0)
              + (IF i + k < ahi /\ j + k < bhi
                    THEN MatchingSize(a, b, i + k, ahi, j + k, bhi) ELSE 0)

\* ConditionScore with the ratio M / T
ConditionScoreHalf(a, b) ==
    LET M == MatchingSize(a, b, 0, Len(a), 0, Len(b))
        T == Len(a) + Len(b)
    IN IF T = 0 THEN ConditionPoints ELSE (ConditionPoints * M) \div T

\* ConditionScore rounding to the nearest integer
ConditionScoreRounded(a, b) ==
    LET M == MatchingSize(a, b, 0, Len(a), 0, Len(b))
        T == Len(a) + Len(b)
    IN IF T = 0 THEN ConditionPoints ELSE (4 * ConditionPoints * M + T) \div (2 * T)

\* int(ratio * 20) with ratio = 2.0 * M / T (1.0 when T = 0)
ConditionScore(a, b) ==
    LET M == MatchingSize(a, b, 0, Len(a), 0, Len(b))
        T == Len(a) + Len(b)
    IN IF T = 0 THEN ConditionPoints ELSE (2 * ConditionPoints * M) \div T

----------------------------------------------------------------------------
(* matching.py: calculate_match_score *)

\* a reason string, kept as its kind, its polarity and the values it names
Reason(kind, ok, info) == [kind |-> kind, ok |-> ok, info |-> info]

\* AgePart with the upper bound excluded
AgePartExclusive(p, t) ==
    IF t.age_min <= p.age /\ p.age < t.age_max THEN AgePoints ELSE 0

\* AgePart giving the points to every age
AgePartAlways(p, t) == AgePoints

\* 1. AGE MATCH: the points added to score
AgePart(p, t) ==
    IF t.age_min <= p.age /\ p.age <= t.age_max THEN AgePoints ELSE 0

\* GenderPart comparing the trial gender as it is written
GenderPartCaseSensitive(p, t) ==
    IF t.gender = "ALL" \/ t.gender = Upper(p.gender) THEN GenderPoints ELSE 0

\* 2. GENDER MATCH: the points added to score
GenderPart(p, t) ==
    LET patient_gender == Upper(p.gender)
        trial_gender == Upper(t.gender)
    IN IF trial_gender = "ALL" \/ trial_gender = patient_gender THEN GenderPoints ELSE 0

\* 3. the overlap of the two keyword sets (both lists already evaluated)
KeywordOverlap(pk, tk) == Range(pk) \cap Range(tk)

\* KeywordPart without the cap
KeywordPartNoCap(pk, tk) ==
    IF Range(pk) # {} /\ Range(tk) # {}
       THEN Cardinality(KeywordOverlap(pk, tk)) * PointsPerKeyword
       ELSE 0

\* KeywordPart counting the patient's keywords instead of the shared ones
KeywordPartPatientCount(pk, tk) ==
    IF Range(pk) # {} /\ Range(tk) # {}
       THEN Min(Cardinality(Range(pk)) * PointsPerKeyword, KeywordCap)
       ELSE 0

\* KeywordPart giving the points of one keyword for any overlap
KeywordPartOnce(pk, tk) ==
    IF Range(pk) # {} /\ Range(tk) # {}
       THEN Min(Cardinality(KeywordOverlap(pk, tk)), 1) * PointsPerKeyword
       ELSE 0

\* 3. CONDITION KEYWORD OVERLAP: the points added to score
KeywordPart(pk, tk) ==
    IF Range(pk) # {} /\ Range(tk) # {}
       THEN Min(Cardinality(KeywordOverlap(pk, tk)) * PointsPerKeyword, KeywordCap)
       ELSE 0

\* str(trial["condition"]).lower()
TrialConditionText(t) ==
    Lower(IF t.condition.kind = "nan" THEN NanText ELSE t.condition.text)

\* 4. PRIMARY CONDITION SIMILARITY: the points added to score (pcs is the
\* evaluated, non-scalar conditions list)
ConditionPart(pcs, t) ==
    IF pcs # <<>> /\ TrialConditionText(t) # <<>>
       THEN ConditionScore(Lower(pcs[1]), TrialConditionText(t))
       ELSE 0

\* BaseReasons with the gender reason first
BaseReasonsGenderFirst(p, t) ==
    <<Reason("gender", GenderPart(p, t) > 0, <<Upper(t.gender)>>),
      Reason("age", AgePart(p, t) > 0, <<p.age, t.age_min, t.age_max>>)>>

\* the reasons after 1. and 2.: one about the age, then one about the gender,
\* each satisfied or violated as its points were given or not
BaseReasons(p, t) ==
    <<Reason("age", AgePart(p, t) > 0, <<p.age, t.age_min, t.age_max>>),
      Reason("gender", GenderPart(p, t) > 0, <<Upper(t.gender)>>)>>

\* what the call does when a key is missing (KeyError) or when set() or [0]
\* is applied to a number (TypeError)
Raised == [raised |-> TRUE, score |-> 0, reasons |-> <<>>,
           parts |-> [age |-> 0, gender |-> 0, keyword |-> 0, condition |-> 0]]

calculate_match_score(p, t, order) ==
    LET age_part == AgePart(p, t)
        gender_part == GenderPart(p, t)
        r2 == BaseReasons(p, t)
        pkv == safe_eval_list(p.condition_keywords)
        tkv == safe_eval_list(t.keywords)
        pcv == safe_eval_list(p.conditions)
    IN IF \/ KeyMissing(p.condition_keywords) \/ KeyMissing(t.keywords)
          \/ KeyMissing(p.conditions)
          \/ ~pkv.islist \/ ~tkv.islist
          \/ (~pcv.islist /\ TrialConditionText(t) # <<>>)
          THEN Raised
       ELSE
        LET overlap == KeywordOverlap(pkv.items, tkv.items)
            keyword_score == KeywordPart(pkv.items, tkv.items)
            overlap_sample == SubSeq(ListOfSet(overlap, order), 1,
                                     Min(SampleSize, Cardinality(overlap)))
            r3 == IF keyword_score > 0
                     THEN Append(r2, Reason("keywords", TRUE,
                                            <<Cardinality(overlap)>> \o overlap_sample))
                     ELSE r2
            condition_score == ConditionPart(pcv.items, t)
            r4 == IF condition_score > ConditionReasonFloor
                     THEN Append(r3, Reason("condition", TRUE,
                                            SubSeq(Lower(pcv.items[1]), 1,
                                                   Min(30, Len(pcv.items[1])))))
                     ELSE r3
        IN [raised |-> FALSE,
            score |-> age_part + gender_part + keyword_score + condition_score,
            reasons |-> r4,
            parts |-> [age |-> age_part, gender |-> gender_part,
                       keyword |-> keyword_score, condition |-> condition_score]]

----------------------------------------------------------------------------
(* matching.py: match_patient_to_trials and match_all_patients *)

\* the dictionary appended to matches (the title is carried along unread and
\* is left out)
MatchRecord(t, r) ==
    [nct_id |-> t.nct_id, condition |-> t.condition, score |-> r.score,
     reasons |-> r.reasons]

\* KeepMatch letting every trial through
KeepMatchAll(score, ms) == TRUE

\* KeepMatch keeping the scores up to the threshold
KeepMatchBelow(score, ms) == score <= ms

\* "Only keep matches above threshold"
KeepMatch(score, ms) == score >= ms

\* InsertDesc putting a record before the records of equal score
InsertDescBeforeEqual(sorted, m) ==
    LET k == Cardinality({i \in DOMAIN sorted : sorted[i].score > m.score})
    IN SubSeq(sorted, 1, k) \o <<m>> \o SubSeq(sorted, k + 1, Len(sorted))

\* one record placed into a list sorted by score, descending: after every
\* record whose score is greater or equal
InsertDesc(sorted, m) ==
    LET k == Cardinality({i \in DOMAIN sorted : sorted[i].score >= m.score})
    IN SubSeq(sorted, 1, k) \o <<m>> \o SubSeq(sorted, k + 1, Len(sorted))

\* sorted(matches, key=score, reverse=True): stable, equal scores keep the
\* order they have in matches
RECURSIVE SortByScoreDesc(_)
SortByScoreDesc(s) ==
    IF s = <<>> THEN <<>>
    ELSE InsertDesc(SortByScoreDesc(SubSeq(s, 1, Len(s) - 1)), s[Len(s)])

\* TopK keeping one record too many
TopKPlusOne(s, k) == SubSeq(s, 1, Min(k + 1, Len(s)))

\* matches[:top_k] (a negative top_k drops records from the end)
TopK(s, k) ==
    IF k >= 0 THEN SubSeq(s, 1, Min(k, Len(s)))
    ELSE SubSeq(s, 1, IF Len(s) + k > 0 THEN Len(s) + k ELSE 0)

\* the list matches after the loop over the first n trials
RECURSIVE CollectMatches(_, _, _, _, _)
CollectMatches(p, ts, n, ms, order) ==
    IF n = 0 THEN <<>>
    ELSE LET before == CollectMatches(p, ts, n - 1, ms, order)
             r == calculate_match_score(p, ts[n], order)
         IN IF KeepMatch(r.score, ms) THEN Append(before, MatchRecord(ts[n], r))
            ELSE before

match_patient_to_trials(p, ts, k, ms, order) ==
    TopK(SortByScoreDesc(CollectMatches(p, ts, Len(ts), ms, order)), k)

\* StoreMatches starting a new mapping for every patient
StoreMatchesAlone(all, id, ms) == [i \in {id} |-> ms]

\* all_matches[patient_id] = matches
StoreMatches(all, id, ms) ==
    [i \in DOMAIN all \cup {id} |-> IF i = id THEN ms ELSE all[i]]

----------------------------------------------------------------------------
(* evaluate_fp_fn.py: is_valid_match *)

\* the gender check of the ground-truth validator
GenderValid(p, t) == t.gender = "ALL" \/ Upper(t.gender) = Upper(p.gender)

\* the age check of the ground-truth validator
AgeValid(p, t) == t.age_min <= p.age /\ p.age <= t.age_max

\* ScoreValid with the two thresholds exchanged
ScoreValidSwapped(score, strict) == score >= (IF strict THEN LenientScore ELSE StrictScore)

\* the score check of the ground-truth validator
ScoreValid(score, strict) == score >= (IF strict THEN StrictScore ELSE LenientScore)

\* the keyword check of the ground-truth validator (sets of evaluated lists)
KeywordValid(p, t, strict) ==
    IF strict
       THEN Cardinality(KeywordOverlap(safe_eval_list(p.condition_keywords).items,
                                       safe_eval_list(t.keywords).items)) >= StrictKeywords
       ELSE TRUE

\* what a call returned: value, or raised when set() is applied to a number
\* (strict mode only)
is_valid_match(p, t, score, strict) ==
    IF strict /\ (~safe_eval_list(p.condition_keywords).islist
                  \/ ~safe_eval_list(t.keywords).islist)
       THEN [called |-> TRUE, raised |-> TRUE, value |-> FALSE]
       ELSE [called |-> TRUE, raised |-> FALSE,
             value |-> AgeValid(p, t) /\ GenderValid(p, t) /\ ScoreValid(score, strict)
                       /\ KeywordValid(p, t, strict)]

----------------------------------------------------------------------------
(* matching.py: match_all_patients as one call; evaluate_fp_fn.py: the pieces
   of evaluate_matches_with_fp_fn *)

\* the mapping match_all_patients returns for the frames ps and ts (rows 1..n
\* of ps done)
RECURSIVE MatchAllUpTo(_, _, _, _)
MatchAllUpTo(ps, n, ts, order) ==
    IF n = 0 THEN [i \in {} |-> <<>>]
    ELSE StoreMatches(MatchAllUpTo(ps, n - 1, ts, order), ps[n].id,
                      match_patient_to_trials(ps[n], ts, DefaultTopK, DefaultMinScore,
                                              order))

match_all_patients(ps, ts, order) == MatchAllUpTo(ps, Len(ps), ts, order)

\* random.sample(list(population), k): k distinct members in some order
Samples(population, k) ==
    {s \in [1..k -> population] : \A i, j \in 1..k : s[i] = s[j] => i = j}

\* random.sample raises ValueError ("Sample larger than population or is
\* negative")
SampleRaises(population, k) == k > Cardinality(population) \/ k < 0

\* SampleSizeOf handing the request on as it is
SampleSizeAsRequested(requested, population) == requested

\* min(requested, len(population)): the size handed to random.sample
SampleSizeOf(requested, population) == Min(requested, Cardinality(population))

\* the persisted inputs, in the order they are read
Files == <<"patients.csv", "trials_clean.csv", "matches.json">>

\* LoadOutcome going on without the input
LoadOutcomeDefaulting(present) == "loaded"

\* pd.read_csv / open on the three inputs: the first one that is not there
\* raises FileNotFoundError, which nothing catches
LoadOutcome(present) ==
    IF \A i \in DOMAIN Files : Files[i] \in present THEN "loaded"
    ELSE "FileNotFoundError"

\* frame[frame[key] == value].iloc[0] for the trial frame
TrialById(ts, nct) ==
    ts[CHOOSE i \in DOMAIN ts :
          ts[i].nct_id = nct /\ \A j \in 1..(i - 1) : ts[j].nct_id # nct]

\* frame[frame[key] == value].iloc[0] for the patient frame
PatientById(ps, id) ==
    ps[CHOOSE i \in DOMAIN ps :
          ps[i].id = id /\ \A j \in 1..(i - 1) : ps[j].id # id]

\* {m["nct_id"]: m["score"] for m in ms}: a key stands where it first
\* appeared and holds the score it was given last
RECURSIVE DictOfScores(_)
DictOfScores(ms) ==
    IF ms = <<>> THEN <<>>
    ELSE LET d == DictOfScores(SubSeq(ms, 1, Len(ms) - 1))
             m == ms[Len(ms)]
             e == [nct_id |-> m.nct_id, score |-> m.score]
         IN IF \E i \in DOMAIN d : d[i].nct_id = m.nct_id
               THEN [i \in DOMAIN d |-> IF d[i].nct_id = m.nct_id THEN e ELSE d[i]]
               ELSE Append(d, e)

\* recommended_trials: the cached matches with score >= threshold
RecommendedTrials(ms, threshold) ==
    DictOfScores(SelectSeq(ms, LAMBDA m : m.score >= threshold))

\* not_recommended_ids = all_trial_ids - recommended_ids
NotRecommendedIds(ts, recommended) ==
    {ts[i].nct_id : i \in DOMAIN ts} \ {recommended[i].nct_id : i \in DOMAIN recommended}

NoCounts == [tp |-> 0, fp |-> 0, tn |-> 0, fn |-> 0]

\* CountRecommended forgetting the invalid recommendations
CountRecommendedValidOnly(c, is_valid) ==
    IF is_valid THEN [c EXCEPT !.tp = c.tp + 1] ELSE c

\* the counters after one recommended trial
CountRecommended(c, is_valid) ==
    IF is_valid THEN [c EXCEPT !.tp = c.tp + 1] ELSE [c EXCEPT !.fp = c.fp + 1]

\* CountNotRecommended counting every sampled trial as a true negative
CountNotRecommendedAsNegative(c, is_valid) == [c EXCEPT !.tn = c.tn + 1]

\* the counters after one sampled not-recommended trial
CountNotRecommended(c, is_valid) ==
    IF is_valid THEN [c EXCEPT !.fn = c.fn + 1] ELSE [c EXCEPT !.tn = c.tn + 1]

\* total = true_positives + false_positives + true_negatives + false_negatives
TotalOf(c) == c.tp + c.fp + c.tn + c.fn

\* the numbers of "Calculate metrics", kept exact as fractions n/d with d > 0;
\* err says that a division by zero was attempted (ZeroDivisionError)
Rat(n, d) == [err |-> FALSE, n |-> n, d |-> d]
DivError == [err |-> TRUE, n |-> 0, d |-> 1]
Zero == Rat(0, 1)

\* a / b on two integers
IntDiv(a, b) == IF b = 0 THEN DivError ELSE Rat(a, b)

RatAdd(x, y) ==
    IF x.err \/ y.err THEN DivError ELSE Rat(x.n * y.d + y.n * x.d, x.d * y.d)

RatMul(x, y) == IF x.err \/ y.err THEN DivError ELSE Rat(x.n * y.n, x.d * y.d)

\* x / y on two numbers
RatDiv(x, y) ==
    IF x.err \/ y.err \/ y.n = 0 THEN DivError ELSE Rat(x.n * y.d, x.d * y.n)

RatPositive(x) == ~x.err /\ x.n > 0

Precision(c) == IF c.tp + c.fp > 0 THEN IntDiv(c.tp, c.tp + c.fp) ELSE Zero

Recall(c) == IF c.tp + c.fn > 0 THEN IntDiv(c.tp, c.tp + c.fn) ELSE Zero

F1Score(precision, recall) ==
    IF RatPositive(RatAdd(precision, recall))
       THEN RatDiv(RatMul(Rat(2, 1), RatMul(precision, recall)),
                   RatAdd(precision, recall))
       ELSE Zero

\* Accuracy dividing by the recommended pairs only
AccuracyOverRecommended(c) ==
    IF TotalOf(c) > 0 THEN IntDiv(c.tp + c.tn, c.tp + c.fp) ELSE Zero

Accuracy(c) == IF TotalOf(c) > 0 THEN IntDiv(c.tp + c.tn, TotalOf(c)) ELSE Zero

FalsePositiveRate(c) == IF c.fp + c.tn > 0 THEN IntDiv(c.fp, c.fp + c.tn) ELSE Zero

FalseNegativeRate(c) == IF c.fn + c.tp > 0 THEN IntDiv(c.fn, c.fn + c.tp) ELSE Zero

\* the six derived ratios
Metrics(c) ==
    [precision |-> Precision(c),
     recall |-> Recall(c),
     f1_score |-> F1Score(Precision(c), Recall(c)),
     accuracy |-> Accuracy(c),
     fpr |-> FalsePositiveRate(c),
     fnr |-> FalseNegativeRate(c)]

NoMetrics ==
    [precision |-> Zero, recall |-> Zero, f1_score |-> Zero, accuracy |-> Zero,
     fpr |-> Zero, fnr |-> Zero]

----------------------------------------------------------------------------
(* The rows the checks draw from *)

Text(chars) == [kind |-> "str", text |-> chars]
NanText0 == [kind |-> "nan", text |-> <<>>]

PatientRow(id, age, gender, conditions, keywords) ==
    [id |-> id, age |-> age, gender |-> gender, conditions |-> conditions,
     condition_keywords |-> keywords]

TrialRow(nct, lo, hi, gender, condition, keywords) ==
    [nct_id |-> nct, age_min |-> lo, age_max |-> hi, gender |-> gender,
     condition |-> condition, keywords |-> keywords]

\* set iteration orders: the keywords in increasing and in decreasing order
OrderUp == Interval(1, MaxKw)
OrderDown == [i \in 1..MaxKw |-> MaxKw + 1 - i]

PatientAges == {18, 40, 65, 70}
AgeRanges == {<<18, 65>>, <<41, 100>>, <<65, 18>>}
PatientGenders == {"male", "female", "Male"}
TrialGenders == {"ALL", "MALE", "FEMALE", "all", "Female"}
PatientConditions ==
    {StrListCell(<<>>),
     StrListCell(<< <<"D", "a", "b">>, <<"t", "a">> >>),
     ListCell(<< <<"a", "n", "d">> >>)}
TrialConditions ==
    {Text(<<"d", "a", "b">>), Text(<<"B", "a", "d">>), Text(<<"m">>), Text(<<>>), NanText0,
     Text(<<"m", "a", "m", "m", "m">>)}

\* slice 1: ages, genders and conditions vary, two keyword cells
PatientsByAge ==
    {PatientRow("p1", a, g, c, k) :
        a \in PatientAges, g \in PatientGenders, c \in PatientConditions,
        k \in {StrListCell(<<>>), ListCell(<<1, 2>>)}}
TrialsByAge ==
    {TrialRow("t1", r[1], r[2], g, c, StrListCell(<<2, 1, 3>>)) :
        r \in AgeRanges, g \in TrialGenders, c \in TrialConditions}

\* slice 2: the keyword lists vary: a patient holds 1..n, a trial holds a..b
\* (or nothing, or a list that repeats a keyword)
PatientsByKeyword ==
    {PatientRow("p1", a, "female", StrListCell(<< <<"D", "a", "b">> >>),
                StrListCell(Interval(1, n))) :
        a \in {40, 70}, n \in 0..MaxKw}
TrialsByKeyword ==
    {TrialRow("t1", 18, 65, g, Text(<<"d", "a", "b">>), k) :
        g \in {"ALL", "MALE"},
        k \in {StrListCell(Interval(lo, hi)) : lo \in 1..MaxKw, hi \in 0..MaxKw}
              \cup {ListCell(<<2, 2, 1>>)}}

\* slice 3: the patient with type 2 diabetes on metformin and the diabetes
\* trial with insulin, the keywords being diabetes (1), metformin (2) and
\* insulin (3); the lists come from a request (lists) or from a CSV file (text)
ScenarioPatientCondition ==
    <<"T", "y", "p", "e", " ", "2", " ", "D", "i", "a", "b", "e", "t", "e", "s", " ", "M", "e", "l", "l", "i", "t", "u", "s">>
ScenarioTrialCondition ==
    <<"T", "y", "p", "e", " ", "2", " ", "D", "i", "a", "b", "e", "t", "e", "s">>
ScenarioPatients ==
    {PatientRow("p1", 45, "male", c, k) :
        c \in {ListCell(<<ScenarioPatientCondition>>),
               StrListCell(<<ScenarioPatientCondition>>)},
        k \in {ListCell(<<1, 2>>), StrListCell(<<1, 2>>)}}
ScenarioTrials ==
    {TrialRow("t1", 18, 65, "ALL", Text(ScenarioTrialCondition), k) :
        k \in {ListCell(<<1, 3>>), StrListCell(<<1, 3>>)}}

\* cached scores is_valid_match may be handed instead of the fresh one
CachedScores == {50, 60}

NoResult == [raised |-> FALSE, score |-> -1, reasons |-> <<>>,
             parts |-> [age |-> 0, gender |-> 0, keyword |-> 0, condition |-> 0]]
NoValid == [s \in BOOLEAN |-> [called |-> FALSE, raised |-> FALSE, value |-> FALSE]]
NoEval == [phase |-> "off"]

----------------------------------------------------------------------------
(* Specification Spec: one patient and one trial are scored, then judged by
   the ground-truth validator in both modes *)

Init ==
    /\ pc = "start"
    /\ \/ /\ patient \in PatientsByAge
          /\ trial \in TrialsByAge
          /\ hashOrder = OrderUp
       \/ /\ patient \in PatientsByKeyword
          /\ trial \in TrialsByKeyword
          /\ hashOrder \in {OrderUp, OrderDown}
       \/ /\ patient \in ScenarioPatients
          /\ trial \in ScenarioTrials
          /\ hashOrder \in {OrderUp, OrderDown}
    /\ res = NoResult
    /\ arg = -1
    /\ valid = NoValid
    /\ trials = <<>>
    /\ top_k = 0
    /\ min_score = 0
    /\ idx = 0
    /\ matches = <<>>
    /\ ranked = <<>>
    /\ patients = <<>>
    /\ all_matches = <<>>
    /\ ev = NoEval

\* score, reasons = calculate_match_score(patient, trial); the validator is
\* then handed this score or a cached one
Score ==
    /\ pc = "start"
    /\ res' = calculate_match_score(patient, trial, hashOrder)
    /\ pc' = IF res'.raised THEN "raised" ELSE "scored"
    /\ arg' \in {res'.score} \cup CachedScores
    /\ UNCHANGED <<patient, trial, hashOrder, valid, trials, top_k, min_score, idx,
                   matches, ranked, patients, all_matches, ev>>

\* is_valid = is_valid_match(patient, trial, score, strict)
Validate(strict) ==
    /\ pc = "scored"
    /\ ~valid[strict].called
    /\ valid' = [valid EXCEPT ![strict] = is_valid_match(patient, trial, arg, strict)]
    /\ UNCHANGED <<pc, patient, trial, hashOrder, res, arg, trials, top_k, min_score,
                   idx, matches, ranked, patients, all_matches, ev>>

ValidateStrict == Validate(TRUE)
ValidateLenient == Validate(FALSE)

Next == Score \/ ValidateStrict \/ ValidateLenient

Spec == Init /\ [][Next]_vars

----------------------------------------------------------------------------
(* Specification SpecMalformed: the same two calls on rows whose keyword and
   condition cells are missing, empty or no list *)

\* a cell that is missing (no key, or an empty CSV cell), empty, or a string
\* that is no list literal
MalformedCells ==
    {AbsentCell, NanCell, StrBadCell, StrNumCell, StrListCell(<<>>), ListCell(<<>>)}

PatientsMalformed ==
    {PatientRow("p1", a, "female", c, k) :
        a \in {40, 70},
        c \in MalformedCells \cup {StrListCell(<< <<"D", "a", "b">> >>)},
        k \in MalformedCells \cup {ListCell(<<1, 2>>)}}

TrialsMalformed ==
    {TrialRow("t1", 18, 65, g, c, k) :
        g \in {"ALL", "MALE"},
        c \in {Text(<<"d", "a", "b">>), Text(<<>>)},
        k \in MalformedCells \cup {StrListCell(<<2, 1, 3>>)}}

InitMalformed ==
    /\ pc = "start"
    /\ patient \in PatientsMalformed
    /\ trial \in TrialsMalformed
    /\ hashOrder = OrderUp
    /\ res = NoResult
    /\ arg = -1
    /\ valid = NoValid
    /\ trials = <<>>
    /\ top_k = 0
    /\ min_score = 0
    /\ idx = 0
    /\ matches = <<>>
    /\ ranked = <<>>
    /\ patients = <<>>
    /\ all_matches = <<>>
    /\ ev = NoEval

SpecMalformed == InitMalformed /\ [][Next]_vars

----------------------------------------------------------------------------
(* Specification SpecTwice: calculate_match_score is invoked on the same
   patient and trial a second time, by the same process or by another run of
   the program (whose string hashes, and so whose set iteration order, are
   its own) *)

InitTwice ==
    /\ pc = "start"
    /\ patient \in PatientsByKeyword
    /\ trial \in TrialsByKeyword
    /\ hashOrder \in {OrderUp, OrderDown}
    /\ \E o \in {OrderUp, OrderDown} :
          ev = [phase |-> "twice", hashOrder |-> o, res |-> NoResult]
    /\ res = NoResult
    /\ arg = -1
    /\ valid = NoValid
    /\ trials = <<>>
    /\ top_k = 0
    /\ min_score = 0
    /\ idx = 0
    /\ matches = <<>>
    /\ ranked = <<>>
    /\ patients = <<>>
    /\ all_matches = <<>>

\* the second invocation
ScoreAgain ==
    /\ pc = "scored"
    /\ ev.phase = "twice"
    /\ ev' = [ev EXCEPT !.phase = "again",
                        !.res = calculate_match_score(patient, trial, ev.hashOrder)]
    /\ UNCHANGED <<pc, patient, trial, hashOrder, res, arg, valid, trials, top_k,
                   min_score, idx, matches, ranked, patients, all_matches>>

NextTwice == Score \/ ScoreAgain

SpecTwice == InitTwice /\ [][NextTwice]_vars

----------------------------------------------------------------------------
(* Specification SpecRank: match_patient_to_trials on one patient *)

\* the trials of the ranking frames; for the first ranking patient t1 and t2
\* score alike, t4 scores less and t3 scores nothing
RankTrials ==
    {TrialRow("t1", 18, 65, "ALL", Text(<<"d", "a", "b">>), StrListCell(<<1, 2>>)),
     TrialRow("t2", 18, 65, "FEMALE", Text(<<"d", "a", "b">>), StrListCell(<<2, 1, 3>>)),
     TrialRow("t3", 41, 100, "MALE", Text(<<"m">>), StrListCell(<<3>>)),
     TrialRow("t4", 18, 65, "ALL", Text(<<"m">>), StrListCell(<<1>>))}

RankPatients ==
    {PatientRow("p1", 40, "female", StrListCell(<< <<"D", "a", "b">> >>),
                StrListCell(<<1, 2>>)),
     PatientRow("p2", 70, "male", StrListCell(<< <<"a", "n", "d">> >>),
                StrListCell(<<3, 4>>)),
     PatientRow("p3", 50, "male", StrListCell(<<>>), StrListCell(<<1, 2, 3>>))}

\* the frames: sequences of rows with distinct ids
FramesOf(rows, maxlen) ==
    UNION {{f \in [1..n -> rows] : \A i, j \in 1..n : f[i].nct_id = f[j].nct_id => i = j} :
           n \in 0..maxlen}

MinScores == {0, 20, 40, 60, 75}

InitRank ==
    /\ pc = "rank_loop"
    /\ patient \in {p \in RankPatients : p.id \in {"p1", "p2"}}
    /\ trials \in FramesOf(RankTrials, MaxTrials)
    /\ top_k \in 0..MaxTopK
    /\ min_score \in MinScores
    /\ hashOrder = OrderUp
    /\ idx = 0
    /\ matches = <<>>
    /\ ranked = <<>>
    /\ trial = TrialRow("none", 0, 0, "ALL", Text(<<>>), StrListCell(<<>>))
    /\ res = NoResult
    /\ arg = -1
    /\ valid = NoValid
    /\ patients = <<>>
    /\ all_matches = <<>>
    /\ ev = NoEval

\* one turn of "for _, trial in trials_df.iterrows()"
RankStep ==
    /\ pc = "rank_loop"
    /\ idx < Len(trials)
    /\ trial' = trials[idx + 1]
    /\ res' = calculate_match_score(patient, trial', hashOrder)
    /\ matches' = IF KeepMatch(res'.score, min_score)
                     THEN Append(matches, MatchRecord(trial', res'))
                     ELSE matches
    /\ idx' = idx + 1
    /\ UNCHANGED <<pc, patient, hashOrder, arg, valid, trials, top_k, min_score,
                   ranked, patients, all_matches, ev>>

\* the sort and "return matches[:top_k]"
RankReturn ==
    /\ pc = "rank_loop"
    /\ idx = Len(trials)
    /\ ranked' = TopK(SortByScoreDesc(matches), top_k)
    /\ pc' = "ranked"
    /\ UNCHANGED <<patient, trial, hashOrder, res, arg, valid, trials, top_k,
                   min_score, idx, matches, patients, all_matches>>
    /\ UNCHANGED ev

NextRank == RankStep \/ RankReturn

SpecRank == InitRank /\ [][NextRank]_vars

----------------------------------------------------------------------------
(* Specification SpecBatch: match_all_patients *)

\* the patient frames: sequences of rows with distinct ids
PatientFrames ==
    UNION {{f \in [1..n -> RankPatients] : \A i, j \in 1..n : f[i].id = f[j].id => i = j} :
           n \in 0..MaxPatients}

EmptyMapping == [i \in {} |-> <<>>]

InitBatch ==
    /\ pc = "batch_loop"
    /\ patients \in PatientFrames
    /\ trials \in FramesOf(RankTrials, MaxTrials)
    /\ hashOrder \in {OrderUp, OrderDown}
    /\ all_matches = EmptyMapping
    /\ idx = 0
    /\ patient = PatientRow("none", 0, "male", StrListCell(<<>>), StrListCell(<<>>))
    /\ trial = TrialRow("none", 0, 0, "ALL", Text(<<>>), StrListCell(<<>>))
    /\ top_k = DefaultTopK
    /\ min_score = DefaultMinScore
    /\ matches = <<>>
    /\ ranked = <<>>
    /\ res = NoResult
    /\ arg = -1
    /\ valid = NoValid
    /\ ev = NoEval

\* one turn of "for _, patient in patients_df.iterrows()"
BatchStep ==
    /\ pc = "batch_loop"
    /\ idx < Len(patients)
    /\ patient' = patients[idx + 1]
    /\ ranked' = match_patient_to_trials(patient', trials, top_k, min_score, hashOrder)
    /\ all_matches' = StoreMatches(all_matches, patient'.id, ranked')
    /\ idx' = idx + 1
    /\ UNCHANGED <<pc, trial, hashOrder, res, arg, valid, trials, top_k, min_score,
                   matches, patients, ev>>

\* "return all_matches"
BatchReturn ==
    /\ pc = "batch_loop"
    /\ idx = Len(patients)
    /\ pc' = "batch_done"
    /\ UNCHANGED <<patient, trial, hashOrder, res, arg, valid, trials, top_k,
                   min_score, idx, matches, ranked, patients, all_matches, ev>>

NextBatch == BatchStep \/ BatchReturn

SpecBatch == InitBatch /\ [][NextBatch]_vars

----------------------------------------------------------------------------
(* Specification SpecEval: evaluate_matches_with_fp_fn on the frames and the
   mapping that match_all_patients saved for them *)

Thresholds == {40, 75}
SampleRequests == {1, 50}

\* the patient frames of the evaluation: the first two ranking patients
EvalPatientFrames ==
    {f \in PatientFrames : \A i \in DOMAIN f : f[i].id \in {"p1", "p2"}}

InitEval ==
    /\ pc = "eval"
    /\ patients \in EvalPatientFrames
    /\ trials \in FramesOf(RankTrials, MaxTrials)
    /\ hashOrder = OrderUp
    /\ all_matches = match_all_patients(patients, trials, hashOrder)
    /\ \E th \in Thresholds, n \in SampleRequests, strict \in BOOLEAN,
          present \in SUBSET Range(Files) :
          ev = [phase |-> "load", threshold |-> th, num_patients |-> n,
                strict |-> strict, present |-> present, error |-> "none",
                sample |-> <<>>, pi |-> 0,
                recommended |-> <<>>, notrec |-> <<>>, ri |-> 0, ni |-> 0,
                counts |-> NoCounts, pairs |-> {}, evaluated |-> 0, planned |-> 0,
                total |-> -1, metrics |-> NoMetrics]
    /\ patient = PatientRow("none", 0, "male", StrListCell(<<>>), StrListCell(<<>>))
    /\ trial = TrialRow("none", 0, 0, "ALL", Text(<<>>), StrListCell(<<>>))
    /\ res = NoResult
    /\ arg = -1
    /\ valid = NoValid
    /\ top_k = DefaultTopK
    /\ min_score = DefaultMinScore
    /\ idx = 0
    /\ matches = <<>>
    /\ ranked = <<>>

\* the inner loops of the current patient are through
PairsDone ==
    \/ ev.phase = "patients"
    \/ ev.phase = "pairs" /\ ev.ri = Len(ev.recommended) /\ ev.ni = Len(ev.notrec)

\* "Load data"
EvalLoad ==
    /\ pc = "eval"
    /\ ev.phase = "load"
    /\ IF LoadOutcome(ev.present) = "loaded"
          THEN /\ ev' = [ev EXCEPT !.phase = "sample"]
               /\ pc' = pc
          ELSE /\ ev' = [ev EXCEPT !.error = "FileNotFoundError"]
               /\ pc' = "eval_raised"
    /\ UNCHANGED <<patient, trial, hashOrder, res, arg, valid, trials, top_k,
                   min_score, idx, matches, ranked, patients, all_matches>>

\* "Sample patients" and "Initialize counters"
EvalSample ==
    /\ pc = "eval"
    /\ ev.phase = "sample"
    /\ LET k == SampleSizeOf(ev.num_patients, DOMAIN all_matches)
       IN IF SampleRaises(DOMAIN all_matches, k)
             THEN /\ ev' = [ev EXCEPT !.error = "ValueError"]
                  /\ pc' = "eval_raised"
             ELSE /\ \E s \in Samples(DOMAIN all_matches, k) :
                        ev' = [ev EXCEPT !.phase = "patients", !.sample = s,
                                         !.counts = NoCounts]
                  /\ pc' = pc
    /\ UNCHANGED <<patient, trial, hashOrder, res, arg, valid, trials, top_k,
                   min_score, idx, matches, ranked, patients, all_matches>>

\* the head of one turn of "for patient_id in sample_patient_ids": the row,
\* the recommended trials and the sample of the trials not recommended
EvalPatient ==
    /\ pc = "eval"
    /\ PairsDone
    /\ ev.pi < Len(ev.sample)
    /\ LET patient_id == ev.sample[ev.pi + 1]
           recommended == RecommendedTrials(all_matches[patient_id], ev.threshold)
           not_recommended == NotRecommendedIds(trials, recommended)
           k == SampleSizeOf(NotRecommendedSample, not_recommended)
       IN /\ patient' = PatientById(patients, patient_id)
          /\ matches' = all_matches[patient_id]
          /\ IF SampleRaises(not_recommended, k)
                THEN /\ ev' = [ev EXCEPT !.error = "ValueError", !.pi = ev.pi + 1,
                                          !.recommended = recommended]
                     /\ pc' = "eval_raised"
                ELSE /\ \E s \in Samples(not_recommended, k) :
                           ev' = [ev EXCEPT !.phase = "pairs", !.pi = ev.pi + 1,
                                            !.recommended = recommended, !.notrec = s,
                                            !.ri = 0, !.ni = 0,
                                            !.planned = ev.planned + Len(recommended)
                                                        + Len(s)]
                     /\ pc' = pc
    /\ UNCHANGED <<trial, hashOrder, res, arg, valid, trials, top_k, min_score,
                   idx, ranked, patients, all_matches>>

\* one turn of "for nct_id, score in recommended_trials.items()"
EvalRecommended ==
    /\ pc = "eval"
    /\ ev.phase = "pairs"
    /\ ev.ri < Len(ev.recommended)
    /\ LET entry == ev.recommended[ev.ri + 1]
           strict == ev.strict
       IN /\ trial' = TrialById(trials, entry.nct_id)
          /\ arg' = entry.score
          /\ valid' = [NoValid EXCEPT ![strict] =
                          is_valid_match(patient, trial', arg', strict)]
          /\ ev' = [ev EXCEPT !.ri = ev.ri + 1,
                              !.counts = CountRecommended(ev.counts,
                                                          valid'[strict].value),
                              !.pairs = ev.pairs \cup {<<patient.id, entry.nct_id>>},
                              !.evaluated = ev.evaluated + 1]
    /\ UNCHANGED <<pc, patient, hashOrder, res, trials, top_k, min_score, idx,
                   matches, ranked, patients, all_matches>>

\* one turn of "for nct_id in sample_not_recommended"
EvalNotRecommended ==
    /\ pc = "eval"
    /\ ev.phase = "pairs"
    /\ ev.ri = Len(ev.recommended)
    /\ ev.ni < Len(ev.notrec)
    /\ LET nct_id == ev.notrec[ev.ni + 1]
           strict == ev.strict
       IN /\ trial' = TrialById(trials, nct_id)
          /\ res' = calculate_match_score(patient, trial', hashOrder)
          /\ arg' = res'.score
          /\ valid' = [NoValid EXCEPT ![strict] =
                          is_valid_match(patient, trial', arg', strict)]
          /\ ev' = [ev EXCEPT !.ni = ev.ni + 1,
                              !.counts = CountNotRecommended(ev.counts,
                                                             valid'[strict].value),
                              !.pairs = ev.pairs \cup {<<patient.id, nct_id>>},
                              !.evaluated = ev.evaluated + 1]
    /\ UNCHANGED <<pc, patient, hashOrder, trials, top_k, min_score, idx, matches,
                   ranked, patients, all_matches>>

\* "Calculate metrics": the total and the six ratios
EvalFinish ==
    /\ pc = "eval"
    /\ PairsDone
    /\ ev.pi = Len(ev.sample)
    /\ ev' = [ev EXCEPT !.phase = "done", !.total = TotalOf(ev.counts),
                        !.metrics = Metrics(ev.counts)]
    /\ pc' = "eval_done"
    /\ UNCHANGED <<patient, trial, hashOrder, res, arg, valid, trials, top_k,
                   min_score, idx, matches, ranked, patients, all_matches>>

NextEval ==
    EvalLoad \/ EvalSample \/ EvalPatient \/ EvalRecommended \/ EvalNotRecommended \/ EvalFinish

SpecEval == InitEval /\ [][NextEval]_vars

----------------------------------------------------------------------------
(* Specification SpecTopK: evaluate_matches_with_fp_fn on the mapping that
   match_all_patients saved for a trial frame with more good trials than
   top_k *)

TrialNames == <<"n01", "n02", "n03", "n04", "n05", "n06", "n07", "n08", "n09", "n10", "n11">>

\* DefaultTopK + 1 trials that differ in their id only
LongFrame ==
    [i \in 1..(DefaultTopK + 1) |->
        TrialRow(TrialNames[i], 18, 65, "ALL", Text(<<"d", "a", "b">>), StrListCell(<<1, 2>>))]

RankTrial(nct) == CHOOSE t \in RankTrials : t.nct_id = nct

TopKFrames ==
    {LongFrame, LongFrame \o <<RankTrial("t3")>>, <<RankTrial("t4")>> \o LongFrame,
     SubSeq(LongFrame, 1, DefaultTopK) \o <<RankTrial("t3")>>}

TopKPatientFrames ==
    {f \in PatientFrames : \A i \in DOMAIN f : f[i].id \in {"p1", "p3"}}

InitTopK ==
    /\ pc = "eval"
    /\ patients \in TopKPatientFrames
    /\ trials \in TopKFrames
    /\ hashOrder = OrderUp
    /\ all_matches = match_all_patients(patients, trials, hashOrder)
    /\ \E n \in SampleRequests, strict \in BOOLEAN :
          ev = [phase |-> "load", threshold |-> 40, num_patients |-> n,
                strict |-> strict, present |-> Range(Files), error |-> "none",
                sample |-> <<>>, pi |-> 0,
                recommended |-> <<>>, notrec |-> <<>>, ri |-> 0, ni |-> 0,
                counts |-> NoCounts, pairs |-> {}, evaluated |-> 0, planned |-> 0,
                total |-> -1, metrics |-> NoMetrics]
    /\ patient = PatientRow("none", 0, "male", StrListCell(<<>>), StrListCell(<<>>))
    /\ trial = TrialRow("none", 0, 0, "ALL", Text(<<>>), StrListCell(<<>>))
    /\ res = NoResult
    /\ arg = -1
    /\ valid = NoValid
    /\ top_k = DefaultTopK
    /\ min_score = DefaultMinScore
    /\ idx = 0
    /\ matches = <<>>
    /\ ranked = <<>>

SpecTopK == InitTopK /\ [][NextEval]_vars

----------------------------------------------------------------------------
(* Specification SpecCached: evaluate_matches_with_fp_fn on a matches.json
   whose stored scores need not be the ones the scorer gives today *)

\* the scores a stale matches.json may carry
StaleScores == {45, 90}

\* the mapping am with every stored score replaced by s: the same trials in
\* the same order
Restamped(am, s) ==
    [id \in DOMAIN am |-> [i \in DOMAIN am[id] |-> [am[id][i] EXCEPT !.score = s]]]

InitCached ==
    /\ pc = "eval"
    /\ patients \in EvalPatientFrames
    /\ trials \in FramesOf(RankTrials, MaxTrials)
    /\ hashOrder = OrderUp
    /\ LET saved == match_all_patients(patients, trials, hashOrder)
       IN all_matches \in {saved} \cup {Restamped(saved, s) : s \in StaleScores}
    /\ \E th \in Thresholds, n \in SampleRequests, strict \in BOOLEAN :
          ev = [phase |-> "load", threshold |-> th, num_patients |-> n,
                strict |-> strict, present |-> Range(Files), error |-> "none",
                sample |-> <<>>, pi |-> 0,
                recommended |-> <<>>, notrec |-> <<>>, ri |-> 0, ni |-> 0,
                counts |-> NoCounts, pairs |-> {}, evaluated |-> 0, planned |-> 0,
                total |-> -1, metrics |-> NoMetrics]
    /\ patient = PatientRow("none", 0, "male", StrListCell(<<>>), StrListCell(<<>>))
    /\ trial = TrialRow("none", 0, 0, "ALL", Text(<<>>), StrListCell(<<>>))
    /\ res = NoResult
    /\ arg = -1
    /\ valid = NoValid
    /\ top_k = DefaultTopK
    /\ min_score = DefaultMinScore
    /\ idx = 0
    /\ matches = <<>>
    /\ ranked = <<>>

SpecCached == InitCached /\ [][NextEval]_vars

----------------------------------------------------------------------------
(* validation_improved.py: validate_strict_heuristic (Specification
   SpecStrict) *)

\* all_matches[patient_id][:5]
TopMatches == 5

\* the number of True in a list of booleans: sum(validation_results)
CountTrue(bs) == Cardinality({i \in DOMAIN bs : bs[i]})

\* StrictValid without the keyword criterion
StrictValidWithoutKeywords(age_valid, gender_valid, score_valid, keyword_valid) ==
    age_valid /\ gender_valid /\ score_valid

\* is_valid = age_valid and gender_valid and score_valid and keyword_valid
StrictValid(age_valid, gender_valid, score_valid, keyword_valid) ==
    age_valid /\ gender_valid /\ score_valid /\ keyword_valid

\* the entry of details for one cached match: the trial row, the fresh score,
\* the keyword overlap, the four criteria and their conjunction
StrictDetail(p, ts, m, order) ==
    LET t == TrialById(ts, m.nct_id)
        score == calculate_match_score(p, t, order).score
        keyword_overlap == KeywordOverlap(safe_eval_list(p.condition_keywords).items,
                                          safe_eval_list(t.keywords).items)
        age_valid == t.age_min <= p.age /\ p.age <= t.age_max
        gender_valid == t.gender = "ALL" \/ Upper(t.gender) = Upper(p.gender)
        score_valid == score >= StrictScore
        keyword_valid == Cardinality(keyword_overlap) >= StrictKeywords
    IN [patient_id |-> p.id, trial_id |-> m.nct_id, score |-> score,
        age_valid |-> age_valid, gender_valid |-> gender_valid,
        score_valid |-> score_valid, keyword_valid |-> keyword_valid,
        overall_valid |-> StrictValid(age_valid, gender_valid, score_valid,
                                      keyword_valid)]

\* accuracy = sum(validation_results) / len(validation_results) if
\* validation_results else 0
StrictAccuracy(validation_results) ==
    IF validation_results # <<>>
       THEN IntDiv(CountTrue(validation_results), Len(validation_results))
       ELSE Zero

\* failed and failure_reasons
FailureReasons(details) ==
    LET failed == SelectSeq(details, LAMBDA d : ~d.overall_valid)
        count(flag) == Cardinality({i \in DOMAIN failed : ~failed[i][flag]})
    IN [score_too_low |-> count("score_valid"),
        age_mismatch |-> count("age_valid"),
        gender_mismatch |-> count("gender_valid"),
        insufficient_keywords |-> count("keyword_valid")]

\* a trial that fits the first ranking patient but for the age
OlderTrial == TrialRow("t5", 41, 100, "ALL", Text(<<"d", "a", "b">>), StrListCell(<<1, 2>>))

\* a trial that shares one keyword with the first ranking patient
SingleKeywordTrial == TrialRow("t6", 18, 65, "ALL", Text(<<"d", "a", "b">>), StrListCell(<<1>>))

\* the trial frames of the strategy: the ranking frames, a frame with more
\* than TopMatches cached matches for a patient and a frame with the two
\* trials above
StrictFrames ==
    FramesOf(RankTrials, MaxTrials)
        \cup {<<RankTrial("t2")>> \o SubSeq(LongFrame, 1, TopMatches),
              <<OlderTrial, SingleKeywordTrial>> \o SubSeq(LongFrame, 1, TopMatches - 2)}

NoStrictResult ==
    [accuracy |-> Zero, total_evaluated |-> -1, valid_matches |-> -1,
     failure_reasons |-> [score_too_low |-> 0, age_mismatch |-> 0,
                          gender_mismatch |-> 0, insufficient_keywords |-> 0]]

InitStrict ==
    /\ pc = "strict"
    /\ patients \in PatientFrames
    /\ trials \in StrictFrames
    /\ hashOrder = OrderUp
    /\ all_matches = match_all_patients(patients, trials, hashOrder)
    /\ \E n \in SampleRequests :
          ev = [phase |-> "sample", num_samples |-> n, sample |-> <<>>, pi |-> 0,
                mi |-> 0, validation_results |-> <<>>, details |-> <<>>,
                result |-> NoStrictResult]
    /\ patient = PatientRow("none", 0, "male", StrListCell(<<>>), StrListCell(<<>>))
    /\ trial = TrialRow("none", 0, 0, "ALL", Text(<<>>), StrListCell(<<>>))
    /\ res = NoResult
    /\ arg = -1
    /\ valid = NoValid
    /\ top_k = DefaultTopK
    /\ min_score = DefaultMinScore
    /\ idx = 0
    /\ matches = <<>>
    /\ ranked = <<>>

\* "Load data" and "Sample patients"
StrictSample ==
    /\ pc = "strict"
    /\ ev.phase = "sample"
    /\ \E sample \in Samples(DOMAIN all_matches,
                              SampleSizeOf(ev.num_samples, DOMAIN all_matches)) :
          ev' = [ev EXCEPT !.phase = "patients", !.sample = sample]
    /\ UNCHANGED <<pc, patient, trial, hashOrder, res, arg, valid, trials, top_k,
                   min_score, idx, matches, ranked, patients, all_matches>>

\* the head of one turn of "for patient_id in sample_patient_ids"
StrictPatient ==
    /\ pc = "strict"
    /\ ev.phase = "patients"
    /\ ev.mi = Len(matches)
    /\ ev.pi < Len(ev.sample)
    /\ patient' = PatientById(patients, ev.sample[ev.pi + 1])
    /\ matches' = TopK(all_matches[ev.sample[ev.pi + 1]], TopMatches)
    /\ ev' = [ev EXCEPT !.pi = ev.pi + 1, !.mi = 0]
    /\ UNCHANGED <<pc, trial, hashOrder, res, arg, valid, trials, top_k, min_score,
                   idx, ranked, patients, all_matches>>

\* one turn of "for match in matches"
StrictMatch ==
    /\ pc = "strict"
    /\ ev.phase = "patients"
    /\ ev.mi < Len(matches)
    /\ LET match == matches[ev.mi + 1]
           d == StrictDetail(patient, trials, match, hashOrder)
       IN /\ trial' = TrialById(trials, match.nct_id)
          /\ res' = calculate_match_score(patient, trial', hashOrder)
          /\ ev' = [ev EXCEPT !.mi = ev.mi + 1,
                              !.validation_results = Append(ev.validation_results,
                                                            d.overall_valid),
                              !.details = Append(ev.details, d)]
    /\ UNCHANGED <<pc, patient, hashOrder, arg, valid, trials, top_k, min_score,
                   idx, matches, ranked, patients, all_matches>>

\* "Calculate metrics", "Breakdown by failure reason" and the return
StrictFinish ==
    /\ pc = "strict"
    /\ ev.phase = "patients"
    /\ ev.mi = Len(matches)
    /\ ev.pi = Len(ev.sample)
    /\ ev' = [ev EXCEPT !.phase = "done",
                        !.result = [accuracy |-> StrictAccuracy(ev.validation_results),
                                    total_evaluated |-> Len(ev.validation_results),
                                    valid_matches |-> CountTrue(ev.validation_results),
                                    failure_reasons |-> FailureReasons(ev.details)]]
    /\ pc' = "strict_done"
    /\ UNCHANGED <<patient, trial, hashOrder, res, arg, valid, trials, top_k,
                   min_score, idx, matches, ranked, patients, all_matches>>

NextStrict == StrictSample \/ StrictPatient \/ StrictMatch \/ StrictFinish

SpecStrict == InitStrict /\ [][NextStrict]_vars

----------------------------------------------------------------------------
(* validation_improved.py: analyze_multiple_thresholds (Specification
   SpecSweep) *)

\* thresholds = [30, 40, 50, 60, 70, 80]
SweepThresholds == <<30, 40, 50, 60, 70, 80>>

\* "Sample 30 patients"
SweepSample == 30

\* PassesThreshold with the comparison turned round
PassesThresholdBelow(p, t, threshold, order) ==
    /\ calculate_match_score(p, t, order).score <= threshold
    /\ t.age_min <= p.age /\ p.age <= t.age_max
    /\ t.gender = "ALL" \/ Upper(t.gender) = Upper(p.gender)

\* score >= threshold and age_valid and gender_valid, the score being fresh
PassesThreshold(p, t, threshold, order) ==
    /\ calculate_match_score(p, t, order).score >= threshold
    /\ t.age_min <= p.age /\ p.age <= t.age_max
    /\ t.gender = "ALL" \/ Upper(t.gender) = Upper(p.gender)

\* one turn of "for threshold in thresholds": the two inner loops and the
\* entry appended to results
SweepEntry(ps, ts, am, sample, threshold, order) ==
    LET turns == {c \in (DOMAIN sample) \X (1..TopMatches) :
                     c[2] <= Len(TopK(am[sample[c[1]]], TopMatches))}
        passing == {c \in turns :
                       PassesThreshold(PatientById(ps, sample[c[1]]),
                                       TrialById(ts, am[sample[c[1]]][c[2]].nct_id),
                                       threshold, order)}
        valid_count == Cardinality(passing)
        total == Cardinality(turns)
    IN [threshold |-> threshold,
        accuracy |-> IF total > 0 THEN IntDiv(valid_count * 100, total) ELSE Zero,
        valid |-> valid_count,
        total |-> total]

InitSweep ==
    /\ pc = "sweep"
    /\ patients \in PatientFrames
    /\ trials \in StrictFrames
    /\ hashOrder = OrderUp
    /\ all_matches = match_all_patients(patients, trials, hashOrder)
    /\ ev = [phase |-> "sample", sample |-> <<>>, ti |-> 0, results |-> <<>>]
    /\ patient = PatientRow("none", 0, "male", StrListCell(<<>>), StrListCell(<<>>))
    /\ trial = TrialRow("none", 0, 0, "ALL", Text(<<>>), StrListCell(<<>>))
    /\ res = NoResult
    /\ arg = -1
    /\ valid = NoValid
    /\ top_k = DefaultTopK
    /\ min_score = DefaultMinScore
    /\ idx = 0
    /\ matches = <<>>
    /\ ranked = <<>>

\* the load and "Sample 30 patients", before the loop over the thresholds
SweepDraw ==
    /\ pc = "sweep"
    /\ ev.phase = "sample"
    /\ \E sample \in Samples(DOMAIN all_matches,
                              SampleSizeOf(SweepSample, DOMAIN all_matches)) :
          ev' = [ev EXCEPT !.phase = "thresholds", !.sample = sample]
    /\ UNCHANGED <<pc, patient, trial, hashOrder, res, arg, valid, trials, top_k,
                   min_score, idx, matches, ranked, patients, all_matches>>

\* one turn of "for threshold in thresholds"
SweepThreshold ==
    /\ pc = "sweep"
    /\ ev.phase = "thresholds"
    /\ ev.ti < Len(SweepThresholds)
    /\ ev' = [ev EXCEPT !.ti = ev.ti + 1,
                        !.results = Append(ev.results,
                                           SweepEntry(patients, trials, all_matches,
                                                      ev.sample,
                                                      SweepThresholds[ev.ti + 1],
                                                      hashOrder))]
    /\ UNCHANGED <<pc, patient, trial, hashOrder, res, arg, valid, trials, top_k,
                   min_score, idx, matches, ranked, patients, all_matches>>

\* "return results"
SweepReturn ==
    /\ pc = "sweep"
    /\ ev.phase = "thresholds"
    /\ ev.ti = Len(SweepThresholds)
    /\ ev' = [ev EXCEPT !.phase = "done"]
    /\ pc' = "sweep_done"
    /\ UNCHANGED <<patient, trial, hashOrder, res, arg, valid, trials, top_k,
                   min_score, idx, matches, ranked, patients, all_matches>>

NextSweep == SweepDraw \/ SweepThreshold \/ SweepReturn

SpecSweep == InitSweep /\ [][NextSweep]_vars

----------------------------------------------------------------------------
(* validation_improved.py: validate_negative_cases, run twice on the same
   frames (Specification SpecNegative) *)

\* frame.sample(n): n rows of the frame, drawn by the global generator of
\* numpy, which the program does not seed; kept as the set of the row
\* positions drawn
FrameSamples(frame, n) == {rows \in SUBSET DOMAIN frame : Cardinality(rows) = n}

\* age_mismatch
AgeMismatch(p, t) == ~(t.age_min <= p.age /\ p.age <= t.age_max)

\* gender_mismatch
GenderMismatch(p, t) == t.gender # "ALL" /\ Upper(t.gender) # Upper(p.gender)

\* the pairs appended to negative_cases
NegativeCases(ps, ts, sample_patients, sample_trials) ==
    {c \in sample_patients \X sample_trials :
        AgeMismatch(ps[c[1]], ts[c[2]]) \/ GenderMismatch(ps[c[1]], ts[c[2]])}

\* MismatchType looking at the gender first
MismatchTypeGenderFirst(p, t) == IF GenderMismatch(p, t) THEN "gender" ELSE "age"

\* "mismatch_type": "age" if age_mismatch else "gender"
MismatchType(p, t) == IF AgeMismatch(p, t) THEN "age" ELSE "gender"

\* correctly_rejected
CorrectlyRejected(p, t, order) == calculate_match_score(p, t, order).score < RejectBelow

\* the counts behind the returned record and the two printed breakdowns;
\* None when there is no negative case
NegativeResult(ps, ts, sample_patients, sample_trials, order) ==
    LET cases == NegativeCases(ps, ts, sample_patients, sample_trials)
        rejected == {c \in cases : CorrectlyRejected(ps[c[1]], ts[c[2]], order)}
        age_cases == {c \in cases : MismatchType(ps[c[1]], ts[c[2]]) = "age"}
        gender_cases == {c \in cases : MismatchType(ps[c[1]], ts[c[2]]) = "gender"}
    IN IF cases = {} THEN [none |-> TRUE, tested |-> 0, rejected |-> 0,
                           age_tested |-> 0, age_rejected |-> 0,
                           gender_tested |-> 0, gender_rejected |-> 0]
       ELSE [none |-> FALSE,
             tested |-> Cardinality(cases),
             rejected |-> Cardinality(rejected),
             age_tested |-> Cardinality(age_cases),
             age_rejected |-> Cardinality(age_cases \cap rejected),
             gender_tested |-> Cardinality(gender_cases),
             gender_rejected |-> Cardinality(gender_cases \cap rejected)]

\* the rows of patients.csv: the first patient is 70, the others 40, women and
\* men in turn
NegPatient(i) ==
    PatientRow(i, IF i = 1 THEN 70 ELSE 40, IF i % 2 = 0 THEN "male" ELSE "female",
               StrListCell(<< <<"D", "a", "b">> >>), StrListCell(<<1, 2>>))

\* frames of no row, one row, MaxPatients rows and one row more than a sample
NegPatientFrames ==
    {[i \in 1..n |-> NegPatient(i)] : n \in {0, 1, MaxPatients, NegativeSample + 1}}

NoNegativeRun == [sample_patients |-> {}, sample_trials |-> {}, result |-> <<>>]

InitNegative ==
    /\ pc = "negative"
    /\ patients \in NegPatientFrames
    /\ trials \in FramesOf(RankTrials, MaxTrials)
    /\ hashOrder = OrderUp
    /\ ev = [phase |-> "load", run |-> 1, sample_patients |-> {},
             sample_trials |-> {}, result |-> <<>>, first |-> NoNegativeRun]
    /\ patient = PatientRow("none", 0, "male", StrListCell(<<>>), StrListCell(<<>>))
    /\ trial = TrialRow("none", 0, 0, "ALL", Text(<<>>), StrListCell(<<>>))
    /\ res = NoResult
    /\ arg = -1
    /\ valid = NoValid
    /\ top_k = DefaultTopK
    /\ min_score = DefaultMinScore
    /\ idx = 0
    /\ matches = <<>>
    /\ ranked = <<>>
    /\ all_matches = EmptyMapping

\* "Get some real patients and trials"
NegSample ==
    /\ pc = "negative"
    /\ ev.phase = "load"
    /\ \E sp \in FrameSamples(patients, SampleSizeOf(NegativeSample, DOMAIN patients)),
          st \in FrameSamples(trials, SampleSizeOf(NegativeSample, DOMAIN trials)) :
          ev' = [ev EXCEPT !.phase = "sampled", !.sample_patients = sp,
                           !.sample_trials = st]
    /\ UNCHANGED <<pc, patient, trial, hashOrder, res, arg, valid, trials, top_k,
                   min_score, idx, matches, ranked, patients, all_matches>>

\* the two loops, "Calculate metrics" and the return
NegEvaluate ==
    /\ pc = "negative"
    /\ ev.phase = "sampled"
    /\ ev' = [ev EXCEPT !.phase = "returned",
                        !.result = NegativeResult(patients, trials, ev.sample_patients,
                                                  ev.sample_trials, hashOrder)]
    /\ UNCHANGED <<pc, patient, trial, hashOrder, res, arg, valid, trials, top_k,
                   min_score, idx, matches, ranked, patients, all_matches>>

\* the strategy is run once more on the same files
NegRunAgain ==
    /\ pc = "negative"
    /\ ev.phase = "returned"
    /\ ev.run = 1
    /\ ev' = [phase |-> "load", run |-> 2, sample_patients |-> {},
              sample_trials |-> {}, result |-> <<>>,
              first |-> [sample_patients |-> ev.sample_patients,
                         sample_trials |-> ev.sample_trials,
                         result |-> ev.result]]
    /\ UNCHANGED <<pc, patient, trial, hashOrder, res, arg, valid, trials, top_k,
                   min_score, idx, matches, ranked, patients, all_matches>>

NextNegative == NegSample \/ NegEvaluate \/ NegRunAgain

SpecNegative == InitNegative /\ [][NextNegative]_vars

----------------------------------------------------------------------------
(* process_trials.py: extract_age_range and extract_trial_info
   (Specification SpecIngest).  An eligibility text is a sequence of tokens:
   a number, or one of the words the patterns look for. *)

\* an eligibility text has at most MaxTokens tokens
MaxTokens == 5

Num(n) == [w |-> "num", n |-> n]
Word(w) == [w |-> w, n |-> 0]

\* the three patterns for a range, each a sequence of token classes
RangePatterns ==
    << << {"num"}, {"to", "-", "through"}, {"num"}, {"years", "yrs"} >>,
       << {"age", "ages"}, {"num"}, {"to", "-"}, {"num"} >>,
       << {"between"}, {"num"}, {"and"}, {"num"}, {"years"} >> >>
MinimumPattern == << {"minimum", "at least"}, {"num"}, {"years"} >>
MaximumPattern == << {"maximum", "up to"}, {"num"}, {"years"} >>

\* re.search(pattern, text): the leftmost place where the pattern matches, 0
\* for None
Search(pattern, text) ==
    LET starts == {i \in 1..(Len(text) - Len(pattern) + 1) :
                      \A k \in DOMAIN pattern : text[i + k - 1].w \in pattern[k]}
    IN IF starts = {} THEN 0
       ELSE CHOOSE i \in starts : \A j \in starts : i <= j

\* int(match.group(g)) for a match at place i
Group(pattern, text, i, g) ==
    LET nums == SelectSeq(SubSeq(text, i, i + Len(pattern) - 1), LAMBDA t : t.w = "num")
    IN nums[g].n

RECURSIVE FirstRange(_, _)
\* the loop over the patterns, from pattern k on: the pair of the first
\* pattern that matches, <<>> when none does
FirstRange(text, k) ==
    IF k > Len(RangePatterns) THEN <<>>
    ELSE LET i == Search(RangePatterns[k], text)
         IN IF i > 0
               THEN <<Group(RangePatterns[k], text, i, 1), Group(RangePatterns[k], text, i, 2)>>
               ELSE FirstRange(text, k + 1)

DefaultAgeMin == 18
DefaultAgeMax == 100

extract_age_range(criteria_text) ==
    LET range == FirstRange(criteria_text, 1)
        lo == Search(MinimumPattern, criteria_text)
        hi == Search(MaximumPattern, criteria_text)
    IN IF range # <<>> THEN range
       ELSE IF lo > 0 THEN <<Group(MinimumPattern, criteria_text, lo, 1), DefaultAgeMax>>
       ELSE IF hi > 0 THEN <<DefaultAgeMin, Group(MaximumPattern, criteria_text, hi, 1)>>
       ELSE <<DefaultAgeMin, DefaultAgeMax>>

\* the record of extract_trial_info, as far as the matcher reads it (the
\* keywords column is added by the keyword step)
extract_trial_info(nct, criteria_text, sex, condition) ==
    LET r == extract_age_range(criteria_text)
    IN TrialRow(nct, r[1], r[2], sex, condition, StrListCell(<<>>))

Tokens ==
    {Num(18), Num(65), Word("to"), Word("years"), Word("age"), Word("between"),
     Word("and"), Word("minimum"), Word("maximum")}

EligibilityTexts == UNION {[1..n -> Tokens] : n \in 0..MaxTokens}

InitIngest ==
    /\ pc = "ingest"
    /\ \E text \in EligibilityTexts : ev = [phase |-> "raw", criteria_text |-> text]
    /\ patient = PatientRow("none", 0, "male", StrListCell(<<>>), StrListCell(<<>>))
    /\ trial = TrialRow("none", 0, 0, "ALL", Text(<<>>), StrListCell(<<>>))
    /\ hashOrder = OrderUp
    /\ res = NoResult
    /\ arg = -1
    /\ valid = NoValid
    /\ trials = <<>>
    /\ top_k = DefaultTopK
    /\ min_score = DefaultMinScore
    /\ idx = 0
    /\ matches = <<>>
    /\ ranked = <<>>
    /\ patients = <<>>
    /\ all_matches = EmptyMapping

\* trial_info = extract_trial_info(trial)
ExtractTrialInfo ==
    /\ pc = "ingest"
    /\ trial' = extract_trial_info("t1", ev.criteria_text, "ALL", Text(<<"d", "a", "b">>))
    /\ ev' = [ev EXCEPT !.phase = "extracted"]
    /\ pc' = "ingested"
    /\ UNCHANGED <<patient, hashOrder, res, arg, valid, trials, top_k, min_score,
                   idx, matches, ranked, patients, all_matches>>

NextIngest == ExtractTrialInfo

SpecIngest == InitIngest /\ [][NextIngest]_vars

----------------------------------------------------------------------------
(* fetch_trials.py: fetch_trials (Specification SpecFetch) *)

\* a page of the registry holds 0..MaxPage studies
MaxPage == 2
\* max_studies ranges over 0..MaxStudies
MaxStudies == 4

\* the studies of one page: the page number and the place on the page
StudiesOfPage(page, n) == [k \in 1..n |-> <<page, k>>]

\* all_trials[:max_studies]
Truncate(all, max_studies) == SubSeq(all, 1, Min(max_studies, Len(all)))

\* the list after one answered request, and whether the loop is left:
\* the break of "No more pages available" comes before the truncation
AfterPage(all, n, token, page, max_studies) ==
    LET extended == all \o StudiesOfPage(page, n)
    IN IF ~token \/ n = 0 THEN [all_trials |-> extended, stop |-> TRUE]
       ELSE IF Len(extended) >= max_studies
               THEN [all_trials |-> Truncate(extended, max_studies), stop |-> TRUE]
               ELSE [all_trials |-> extended, stop |-> FALSE]

InitFetch ==
    /\ pc = "fetch"
    /\ \E m \in 0..MaxStudies :
          ev = [phase |-> "loop", max_studies |-> m, all_trials |-> <<>>,
                next_page_token |-> FALSE, page |-> 0, saved |-> <<>>]
    /\ patient = PatientRow("none", 0, "male", StrListCell(<<>>), StrListCell(<<>>))
    /\ trial = TrialRow("none", 0, 0, "ALL", Text(<<>>), StrListCell(<<>>))
    /\ hashOrder = OrderUp
    /\ res = NoResult
    /\ arg = -1
    /\ valid = NoValid
    /\ trials = <<>>
    /\ top_k = DefaultTopK
    /\ min_score = DefaultMinScore
    /\ idx = 0
    /\ matches = <<>>
    /\ ranked = <<>>
    /\ patients = <<>>
    /\ all_matches = EmptyMapping

\* one turn of the while loop whose request is answered: n studies and a
\* next-page token or none
FetchPage ==
    /\ pc = "fetch"
    /\ ev.phase = "loop"
    /\ Len(ev.all_trials) < ev.max_studies
    /\ \E n \in 0..MaxPage, token \in BOOLEAN :
          LET after == AfterPage(ev.all_trials, n, token, ev.page + 1, ev.max_studies)
          IN ev' = [ev EXCEPT !.page = ev.page + 1,
                              !.all_trials = after.all_trials,
                              !.next_page_token = token,
                              !.phase = IF after.stop THEN "save" ELSE "loop"]
    /\ UNCHANGED <<pc, patient, trial, hashOrder, res, arg, valid, trials, top_k,
                   min_score, idx, matches, ranked, patients, all_matches>>

\* one turn of the while loop whose request fails (RequestException): break
FetchError ==
    /\ pc = "fetch"
    /\ ev.phase = "loop"
    /\ Len(ev.all_trials) < ev.max_studies
    /\ ev' = [ev EXCEPT !.page = ev.page + 1, !.phase = "save"]
    /\ UNCHANGED <<pc, patient, trial, hashOrder, res, arg, valid, trials, top_k,
                   min_score, idx, matches, ranked, patients, all_matches>>

\* "Save raw data" and the return
FetchSave ==
    /\ pc = "fetch"
    /\ \/ ev.phase = "save"
       \/ ev.phase = "loop" /\ ~(Len(ev.all_trials) < ev.max_studies)
    /\ ev' = [ev EXCEPT !.phase = "returned", !.saved = ev.all_trials]
    /\ pc' = "fetch_done"
    /\ UNCHANGED <<patient, trial, hashOrder, res, arg, valid, trials, top_k,
                   min_score, idx, matches, ranked, patients, all_matches>>

NextFetch == FetchPage \/ FetchError \/ FetchSave

SpecFetch == InitFetch /\ [][NextFetch]_vars

----------------------------------------------------------------------------
(* Specification SpecMetrics: "Calculate metrics" of
   evaluate_matches_with_fp_fn on every combination of the four counters *)

\* a counter ranges over 0..MaxCount
MaxCount == 3

CounterCombinations ==
    [tp : 0..MaxCount, fp : 0..MaxCount, tn : 0..MaxCount, fn : 0..MaxCount]

InitMetrics ==
    /\ pc = "metrics"
    /\ \E c \in CounterCombinations :
          ev = [phase |-> "counted", counts |-> c, total |-> -1, metrics |-> NoMetrics]
    /\ patient = PatientRow("none", 0, "male", StrListCell(<<>>), StrListCell(<<>>))
    /\ trial = TrialRow("none", 0, 0, "ALL", Text(<<>>), StrListCell(<<>>))
    /\ hashOrder = OrderUp
    /\ res = NoResult
    /\ arg = -1
    /\ valid = NoValid
    /\ trials = <<>>
    /\ top_k = DefaultTopK
    /\ min_score = DefaultMinScore
    /\ idx = 0
    /\ matches = <<>>
    /\ ranked = <<>>
    /\ patients = <<>>
    /\ all_matches = EmptyMapping

\* "Calculate metrics"
CalculateMetrics ==
    /\ pc = "metrics"
    /\ ev' = [ev EXCEPT !.phase = "done", !.total = TotalOf(ev.counts),
                        !.metrics = Metrics(ev.counts)]
    /\ pc' = "metrics_done"
    /\ UNCHANGED <<patient, trial, hashOrder, res, arg, valid, trials, top_k,
                   min_score, idx, matches, ranked, patients, all_matches>>

NextMetrics == CalculateMetrics

SpecMetrics == InitMetrics /\ [][NextMetrics]_vars

----------------------------------------------------------------------------
(* Claims about calculate_match_score and is_valid_match, checked under Spec *)

InAgeRange == trial.age_min <= patient.age /\ patient.age <= trial.age_max

\* the keywords the patient row and the trial row share
SharedKeywords ==
    {k \in 1..MaxKw : /\ \E i \in DOMAIN patient.condition_keywords.items :
                            patient.condition_keywords.items[i] = k
                      /\ \E i \in DOMAIN trial.keywords.items : trial.keywords.items[i] = k}

ReasonsOfKind(kind) == {i \in DOMAIN res.reasons : res.reasons[i].kind = kind}

\* C1: calculate_match_score returns an integer score with 0 <= score <= 100
\* that is the sum of an age part in {0,20}, a gender part in {0,10}, a keyword
\* part in {0,10,...,50} and a condition part in 0..20.
C1_ScoreInRange ==
    pc # "start" =>
        /\ ~res.raised
        /\ res.score \in 0..100
        /\ res.score = res.parts.age + res.parts.gender + res.parts.keyword
                       + res.parts.condition
        /\ res.parts.age \in {0, 20}
        /\ res.parts.gender \in {0, 10}
        /\ res.parts.keyword \in {0, 10, 20, 30, 40, 50}
        /\ res.parts.condition \in 0..20

C1_Witness == pc = "scored" /\ res.score = 100 /\ Cardinality(SharedKeywords) > 5

\* C2: the age component contributes exactly 20 points if and only if
\* ageMin <= patient age <= ageMax (bounds inclusive), exactly 0 otherwise, and
\* never another value.
C2_AgeComponent ==
    pc = "scored" =>
        /\ InAgeRange => res.parts.age = 20
        /\ ~InAgeRange => res.parts.age = 0
        /\ res.score - res.parts.gender - res.parts.keyword - res.parts.condition
              = (IF InAgeRange THEN 20 ELSE 0)

C2_Witness == pc = "scored" /\ patient.age = trial.age_max /\ res.parts.age = 20

\* two gender strings are equal when case is ignored
SameIgnoringCase(a, b) ==
    \E g \in {{"male", "Male", "MALE"}, {"female", "Female", "FEMALE"},
              {"all", "All", "ALL"}} : a \in g /\ b \in g

\* C3: the gender component contributes 10 points exactly when the trial
\* gender is ALL or equals the patient gender, both compared ignoring case, and
\* 0 otherwise; in both cases exactly one gender reason is emitted, satisfied
\* or violated accordingly.
C3_GenderComponent ==
    pc = "scored" =>
        LET compatible == \/ SameIgnoringCase(trial.gender, "ALL")
                          \/ SameIgnoringCase(trial.gender, patient.gender)
        IN /\ res.parts.gender = (IF compatible THEN 10 ELSE 0)
           /\ Cardinality(ReasonsOfKind("gender")) = 1
           /\ \A i \in ReasonsOfKind("gender") : res.reasons[i].ok = compatible

C3_Witness ==
    /\ pc = "scored"
    /\ trial.gender = "Female"
    /\ patient.gender = "female"
    /\ res.parts.gender = 10

\* the keyword lists of the second slice, evaluated
PatientKeywordLists == {Interval(1, n) : n \in 0..MaxKw}
TrialKeywordLists == {Interval(lo, hi) : lo \in 1..MaxKw, hi \in 0..MaxKw}

\* C4: the keyword component equals min(10 * |patient keywords /\ trial
\* keywords|, 50); it is monotonic non-decreasing in the overlap size (no pair
\* of keyword lists with a smaller or equal overlap gets more points) and is 50
\* for every overlap of 5 or more.
C4_KeywordComponent ==
    pc = "scored" =>
        LET n == Cardinality(SharedKeywords)
        IN /\ res.parts.keyword = Min(10 * n, 50)
           /\ n >= 5 => res.parts.keyword = 50
           /\ \A pk \in PatientKeywordLists, tk \in TrialKeywordLists :
                 Cardinality(Range(pk) \cap Range(tk)) <= n
                    => KeywordPart(pk, tk) <= res.parts.keyword

C4_Witness ==
    /\ pc = "scored"
    /\ Cardinality(SharedKeywords) = 6
    /\ res.parts.keyword = 50

\* C8: whenever is_valid_match(patient, trial, score, strict=True) holds,
\* is_valid_match(patient, trial, score, strict=False) holds too.
C8_StrictImpliesLenient ==
    (valid[TRUE].called /\ valid[FALSE].called /\ valid[TRUE].value)
        => valid[FALSE].value

C8_Witness ==
    /\ valid[TRUE].called /\ valid[FALSE].called
    /\ valid[TRUE].value /\ valid[FALSE].value
    /\ arg < 70

\* C9: is_valid_match returns true exactly when the patient age is within
\* [ageMin, ageMax], the trial gender is compatible with the patient gender
\* under the rule the scorer uses (trial gender is ALL or equals the patient
\* gender, ignoring case), score >= 60 when strict else score >= 50, and, only
\* when strict, the keyword overlap has at least 2 elements.
C9_ValidatorAsScorer ==
    \A strict \in BOOLEAN :
        valid[strict].called =>
            (valid[strict].value <=>
                /\ InAgeRange
                /\ res.parts.gender = 10
                /\ arg >= (IF strict THEN 60 ELSE 50)
                /\ strict => Cardinality(SharedKeywords) >= 2)

\* C13: whenever the patient age is outside [ageMin, ageMax],
\* calculate_match_score emits a violated-age reason (and no satisfied one) and
\* returns a total score of at most 80, whatever the gender, keyword and
\* condition fields are.
C13_AgeOutsideAtMost80 ==
    (pc = "scored" /\ ~InAgeRange) =>
        /\ res.score <= 80
        /\ Cardinality(ReasonsOfKind("age")) = 1
        /\ \A i \in ReasonsOfKind("age") :
              /\ ~res.reasons[i].ok
              /\ res.reasons[i].info = <<patient.age, trial.age_min, trial.age_max>>

C13_Witness ==
    /\ pc = "scored"
    /\ ~InAgeRange
    /\ res.score = 80
    /\ res.parts.keyword = 50 /\ res.parts.condition = 20 /\ res.parts.gender = 10

\* C14: calculate_match_score throws no exception for a patient or trial
\* record whose keyword field or condition list is missing, empty or not
\* parseable as a list; such a field contributes 0 to its component and the
\* other components are still scored.
C14_NoExceptionOnMalformed ==
    pc # "start" =>
        /\ pc # "raised"
        /\ ~res.raised
        /\ (patient.condition_keywords \in MalformedCells
               \/ trial.keywords \in MalformedCells) => res.parts.keyword = 0
        /\ patient.conditions \in MalformedCells => res.parts.condition = 0
        /\ res.parts.age = (IF InAgeRange THEN 20 ELSE 0)
        /\ res.parts.gender = (IF Upper(trial.gender) \in {"ALL", Upper(patient.gender)}
                                  THEN 10 ELSE 0)

\* the same for the cells that are an empty CSV cell, a string that does not
\* parse, or an empty list
C14_TolerantCells ==
    (pc # "start"
       /\ {patient.condition_keywords, trial.keywords, patient.conditions}
              \cap {AbsentCell, StrNumCell} = {}) =>
        /\ ~res.raised
        /\ (patient.condition_keywords \in MalformedCells
               \/ trial.keywords \in MalformedCells) => res.parts.keyword = 0
        /\ patient.conditions \in MalformedCells => res.parts.condition = 0
        /\ res.parts.age = (IF InAgeRange THEN 20 ELSE 0)

\* C28: a pair that passes the ground-truth age check, gender check and
\* keyword-overlap >= 2 check scores at least 50; so with the fresh score the
\* score condition of the strict predicate can only reject scores in [50,60);
\* and a pair with an age mismatch or a gender mismatch is valid in neither
\* mode.
C28_ValidPairsScoreFifty ==
    pc = "scored" =>
        LET age_ok == InAgeRange
            gender_ok == trial.gender = "ALL" \/ Upper(trial.gender) = Upper(patient.gender)
            keywords_ok == Cardinality(SharedKeywords) >= 2
        IN /\ (age_ok /\ gender_ok /\ keywords_ok) => res.score >= 50
           /\ (age_ok /\ gender_ok /\ keywords_ok /\ arg = res.score
                 /\ valid[TRUE].called /\ ~valid[TRUE].value) => res.score \in 50..59
           /\ (~age_ok \/ ~gender_ok) =>
                 \A strict \in BOOLEAN : valid[strict].called => ~valid[strict].value

\* a pair that passes the three checks with a score of exactly 50, rejected by
\* the strict predicate and accepted by the lenient one on its fresh score
C28_Witness ==
    /\ pc = "scored"
    /\ InAgeRange
    /\ trial.gender = "ALL"
    /\ Cardinality(SharedKeywords) >= 2
    /\ res.score = 50
    /\ arg = res.score
    /\ valid[TRUE].called /\ ~valid[TRUE].value
    /\ valid[FALSE].called /\ valid[FALSE].value

\* C30: the condition component is the ratio 2*M/T of the two lowercased
\* strings times 20, truncated: floor(40*M/T); it lies in 0..20, is 20 only
\* when the ratio is 1 (the strings are equal), and a condition-similarity
\* reason is emitted exactly when the component is above 5.
C30_ConditionComponent ==
    pc = "scored" =>
        LET pcs == safe_eval_list(patient.conditions).items
            tc == TrialConditionText(trial)
            c == res.parts.condition
        IN /\ c \in 0..20
           /\ (pcs # <<>> /\ tc # <<>>) =>
                 LET a == Lower(pcs[1])
                     M == MatchingSize(a, tc, 0, Len(a), 0, Len(tc))
                     T == Len(a) + Len(tc)
                 IN /\ c = (40 * M) \div T
                    /\ c = 20 => (2 * M = T /\ a = tc)
           /\ (pcs = <<>> \/ tc = <<>>) => c = 0
           /\ (ReasonsOfKind("condition") # {}) <=> c > 5
           /\ Cardinality(ReasonsOfKind("condition")) <= 1

\* a pair whose condition component is exactly 5: no reason
C30_Witness ==
    /\ pc = "scored"
    /\ res.parts.condition = 5
    /\ ReasonsOfKind("condition") = {}
    /\ safe_eval_list(patient.conditions).items # <<>>

\* C20: for the patient {age 45, male, first condition 'Type 2 Diabetes
\* Mellitus', keywords {diabetes, metformin}} and the trial {ageMin 18, ageMax
\* 65, gender ALL, condition 'Type 2 Diabetes', keywords {diabetes, insulin}},
\* calculate_match_score returns a total in [55,60] made of age 20 + gender 10
\* + keyword 10 + a condition part in 15..20, and the reasons contain exactly
\* one satisfied-age, one satisfied-gender, one keyword-overlap reason and at
\* most one condition-similarity reason.
C20_DiabetesScenario ==
    (pc # "start" /\ patient \in ScenarioPatients /\ trial \in ScenarioTrials) =>
        /\ ~res.raised
        /\ res.score \in 55..60
        /\ res.parts.age = 20
        /\ res.parts.gender = 10
        /\ res.parts.keyword = 10
        /\ res.parts.condition \in 15..20
        /\ res.score = 20 + 10 + 10 + res.parts.condition
        /\ Cardinality(ReasonsOfKind("age")) = 1
        /\ Cardinality(ReasonsOfKind("gender")) = 1
        /\ Cardinality(ReasonsOfKind("keywords")) = 1
        /\ Cardinality(ReasonsOfKind("condition")) <= 1
        /\ \A i \in DOMAIN res.reasons : res.reasons[i].ok
        /\ \A i \in ReasonsOfKind("keywords") : res.reasons[i].info = <<1, 1>>
        /\ Len(res.reasons) = 3 + Cardinality(ReasonsOfKind("condition"))

C20_Witness ==
    /\ pc = "scored"
    /\ patient \in ScenarioPatients
    /\ trial \in ScenarioTrials
    /\ res.score = 55
    /\ res.parts.condition = 15
    /\ Len(res.reasons) = 4

----------------------------------------------------------------------------
(* Claims about two invocations of calculate_match_score, checked under
   SpecTwice *)

\* C15: calculate_match_score is deterministic: two invocations on the same
\* (patient, trial) return the same score and the same reasons sequence,
\* including the same up-to-3 example keywords in the keyword-overlap reason.
C15_Deterministic ==
    ev.phase = "again" =>
        /\ ev.res.score = res.score
        /\ ev.res.reasons = res.reasons

\* what does hold: the score is the same, and so are the reasons when both
\* invocations see the same set iteration order
C15_SameScore ==
    ev.phase = "again" =>
        /\ ev.res.score = res.score
        /\ ev.hashOrder = hashOrder => ev.res.reasons = res.reasons

----------------------------------------------------------------------------
(* Claims about match_patient_to_trials, checked under SpecRank *)

\* the place of a trial in trials_df
FramePosition(nct) == CHOOSE i \in DOMAIN trials : trials[i].nct_id = nct

\* C5: the list match_patient_to_trials returns is sorted by score in
\* non-increasing order, and two returned results of equal score stand in the
\* order their trials have in the trial collection, also after truncation to
\* topK.
C5_SortedStable ==
    pc = "ranked" =>
        \A i, j \in DOMAIN ranked :
            i < j =>
                /\ ranked[i].score >= ranked[j].score
                /\ ranked[i].score = ranked[j].score
                      => FramePosition(ranked[i].nct_id) < FramePosition(ranked[j].nct_id)

C5_Witness ==
    /\ pc = "ranked"
    /\ Len(ranked) = 2
    /\ Len(matches) > top_k
    /\ ranked[1].score = ranked[2].score
    /\ ranked[1].nct_id = "t2"

\* C6: match_patient_to_trials returns at most topK results and every
\* returned result has score >= minScore.
C6_TopKAndMinScore ==
    pc = "ranked" =>
        /\ Len(ranked) <= top_k
        /\ \A i \in DOMAIN ranked : ranked[i].score >= min_score

C6_Witness ==
    /\ pc = "ranked"
    /\ top_k > 0
    /\ Len(ranked) = top_k
    /\ Len(matches) > top_k
    /\ Len(matches) < Len(trials)
    /\ min_score > 0

\* a reasons sequence opens with one age reason, then one gender reason, and
\* holds no other reason of these two kinds
AgeThenGender(reasons) ==
    /\ Len(reasons) >= 2
    /\ reasons[1].kind = "age"
    /\ reasons[2].kind = "gender"
    /\ \A i \in DOMAIN reasons : i > 2 => reasons[i].kind \in {"keywords", "condition"}

\* C19: every MatchResult produced by match_patient_to_trials has a non-empty
\* reasons sequence: calculate_match_score always emits exactly one age reason
\* and exactly one gender reason, in that order, before any keyword or
\* condition reason.
C19_ReasonsAgeThenGender ==
    /\ \A i \in DOMAIN matches : AgeThenGender(matches[i].reasons)
    /\ \A i \in DOMAIN ranked : ranked[i].reasons # <<>> /\ AgeThenGender(ranked[i].reasons)
    /\ (pc = "rank_loop" /\ idx > 0) => AgeThenGender(res.reasons)

C19_Witness ==
    /\ pc = "ranked"
    /\ \E i \in DOMAIN ranked :
          /\ Len(ranked[i].reasons) = 4
          /\ ranked[i].reasons[3].kind = "keywords"
          /\ ranked[i].reasons[4].kind = "condition"
    /\ \E i \in DOMAIN ranked : Len(ranked[i].reasons) = 2 /\ ranked[i].score = 0

\* the number of results for the patient and the frame of the run, with
\* another min_score
ResultCount(ms) == Len(match_patient_to_trials(patient, trials, top_k, ms, hashOrder))

\* C12: for a fixed patient, trial collection and topK, raising minScore never
\* increases the number of results match_patient_to_trials returns: for
\* minScore a <= b the call with b returns at most as many results as the call
\* with a (20 and 60 among them).
C12_MinScoreMonotone ==
    pc = "ranked" =>
        /\ Len(ranked) = ResultCount(min_score)
        /\ \A b \in MinScores :
              /\ min_score <= b => ResultCount(b) <= Len(ranked)
              /\ b <= min_score => Len(ranked) <= ResultCount(b)
        /\ ResultCount(StrictScore) <= ResultCount(DefaultMinScore)

C12_Witness ==
    /\ pc = "ranked"
    /\ min_score = DefaultMinScore
    /\ ResultCount(StrictScore) > 0
    /\ ResultCount(StrictScore) < Len(ranked)

----------------------------------------------------------------------------
(* Claims about match_all_patients, checked under SpecBatch *)

PatientIds == {patients[i].id : i \in DOMAIN patients}

\* the frame with its rows in the opposite order
Reversed(f) == [i \in DOMAIN f |-> f[Len(f) + 1 - i]]

\* the mapping the loop builds over a frame (rows 1..n)
RECURSIVE MappingOver(_, _)
MappingOver(f, n) ==
    IF n = 0 THEN EmptyMapping
    ELSE StoreMatches(MappingOver(f, n - 1), f[n].id,
                      match_patient_to_trials(f[n], trials, top_k, min_score, hashOrder))

\* C7: match_all_patients returns a mapping whose key set is exactly the set
\* of input patient ids, with one ranked list per input patient (the list
\* match_patient_to_trials gives for that patient), and the mapping is the
\* same when the patients are processed in the opposite order.
C7_OneEntryPerPatient ==
    pc = "batch_done" =>
        /\ DOMAIN all_matches = PatientIds
        /\ Cardinality(DOMAIN all_matches) = Len(patients)
        /\ \A i \in DOMAIN patients :
              all_matches[patients[i].id]
                 = TopK(SortByScoreDesc(CollectMatches(patients[i], trials, Len(trials),
                                                       DefaultMinScore, hashOrder)),
                        DefaultTopK)
        /\ all_matches = MappingOver(Reversed(patients), Len(patients))

C7_Witness ==
    /\ pc = "batch_done"
    /\ Len(patients) = 2
    /\ \E i \in DOMAIN all_matches : Len(all_matches[i]) >= 2
    /\ \E i \in DOMAIN all_matches : Len(all_matches[i]) = 0

----------------------------------------------------------------------------
(* Claims about evaluate_matches_with_fp_fn, checked under SpecEval *)

\* C10: every evaluated (patient, trial) pair increments exactly one of the
\* four counters, so at every point of the run the counters sum to the number
\* of pairs evaluated so far, and at the end truePositives + falsePositives +
\* trueNegatives + falseNegatives (the total) equals the number of pairs
\* evaluated: the recommended trials plus the sampled not-recommended trials
\* over all sampled patients; all four counters are >= 0.
C10_CountersSumToPairs ==
    /\ pc \in {"eval", "eval_done"} =>
          /\ TotalOf(ev.counts) = ev.evaluated
          /\ ev.counts.tp >= 0 /\ ev.counts.fp >= 0
          /\ ev.counts.tn >= 0 /\ ev.counts.fn >= 0
    /\ pc = "eval_done" =>
          /\ ev.total = ev.counts.tp + ev.counts.fp + ev.counts.tn + ev.counts.fn
          /\ ev.total = ev.planned
          /\ ev.total = Cardinality(ev.pairs)

C10_Witness ==
    /\ pc = "eval_done"
    /\ Len(ev.sample) = 2
    /\ ev.counts.tp > 0
    /\ ev.counts.fp > 0
    /\ ev.counts.tn > 0
    /\ ev.total >= 5

\* a run that ends with a false negative counted
C10_FalseNegativeSeen == pc = "eval_done" /\ ev.counts.fn > 0 /\ ev.counts.tn > 0

\* the members of a sequence are distinct
Distinct(s) == \A i, j \in DOMAIN s : s[i] = s[j] => i = j

\* C17: when more patients or trials are asked for than exist, the sample
\* size is clamped to the population and the run completes: the patient
\* sample has min(requested, |MatchSet keys|) members, the not-recommended
\* sample has min(10, |complement|) members, all distinct, and random.sample
\* never raises.
C17_SamplesClamped ==
    pc \in {"eval", "eval_done", "eval_raised"} =>
        /\ ev.error # "ValueError"
        /\ ev.phase \in {"patients", "pairs", "done"} =>
              /\ Len(ev.sample) = Min(ev.num_patients, Cardinality(DOMAIN all_matches))
              /\ Distinct(ev.sample)
              /\ Range(ev.sample) \subseteq DOMAIN all_matches
        /\ ev.phase = "pairs" =>
              LET complement == NotRecommendedIds(trials, ev.recommended)
              IN /\ Len(ev.notrec) = Min(10, Cardinality(complement))
                 /\ Distinct(ev.notrec)
                 /\ Range(ev.notrec) \subseteq complement

C17_Witness ==
    /\ pc = "eval_done"
    /\ ev.num_patients = 50
    /\ Len(ev.sample) = 2
    /\ Len(ev.notrec) = 3
    /\ ev.total >= 4

\* the inputs of the evaluation are all there
AllPresent == \A i \in DOMAIN Files : Files[i] \in ev.present

\* C18: when a persisted input (the MatchSet, the patient collection or the
\* trial collection) is missing, the strategy ends in an error reported to its
\* caller and returns no result: the only step it takes is the one that raises
\* FileNotFoundError, with no sample drawn, no pair counted and no total or
\* ratio calculated.
C18_MissingInputRaises ==
    [][(pc = "eval" /\ ~AllPresent) =>
          /\ pc' = "eval_raised"
          /\ ev'.error = "FileNotFoundError"
          /\ ev'.phase = "load"
          /\ ev'.sample = <<>>
          /\ ev'.evaluated = 0
          /\ ev'.counts = NoCounts
          /\ ev'.total = -1
          /\ ev'.metrics = NoMetrics]_vars

C18_Witness ==
    /\ pc = "eval_raised"
    /\ ev.error = "FileNotFoundError"
    /\ "matches.json" \notin ev.present
    /\ "patients.csv" \in ev.present
    /\ Len(patients) = 2
    /\ Len(trials) = 3
    /\ ev.total = -1

\* the ids of the trials recommended to the patient id
RecommendedIdsOf(id) ==
    LET rec == RecommendedTrials(all_matches[id], ev.threshold)
    IN {rec[i].nct_id : i \in DOMAIN rec}

\* the counted pairs whose trial was not recommended to the patient
NotRecommendedPairs == {pr \in ev.pairs : pr[2] \notin RecommendedIdsOf(pr[1])}

\* the predicate on the pair, with the score calculate_match_score gives it
FreshlyValid(pr) ==
    LET p == PatientById(patients, pr[1])
        t == TrialById(trials, pr[2])
    IN is_valid_match(p, t, calculate_match_score(p, t, hashOrder).score, ev.strict).value

\* C24: for each sampled patient the recommended trials and the sampled
\* not-recommended trials are disjoint, the sample being drawn without
\* replacement from the trials outside the recommended ones; a sampled
\* not-recommended trial is a false negative exactly when the ground-truth
\* predicate holds on its fresh score and a true negative otherwise; no pair
\* is counted twice.
C24_NotRecommendedApart ==
    (pc \in {"eval", "eval_done"} /\ ev.phase \in {"pairs", "patients", "done"}) =>
        /\ ev.phase = "pairs" =>
              /\ Range(ev.notrec) \cap {ev.recommended[i].nct_id : i \in DOMAIN ev.recommended} = {}
              /\ Range(ev.notrec) \cap RecommendedIdsOf(patient.id) = {}
              /\ Range(ev.notrec) \subseteq {trials[i].nct_id : i \in DOMAIN trials}
              /\ Distinct(ev.notrec)
              /\ ev.ni > 0 =>
                    /\ arg = calculate_match_score(patient, trial, hashOrder).score
                    /\ trial.nct_id = ev.notrec[ev.ni]
                    /\ valid[ev.strict].value = FreshlyValid(<<patient.id, trial.nct_id>>)
        /\ ev.counts.fn = Cardinality({pr \in NotRecommendedPairs : FreshlyValid(pr)})
        /\ ev.counts.tn = Cardinality({pr \in NotRecommendedPairs : ~FreshlyValid(pr)})
        /\ ev.counts.tp + ev.counts.fp = Cardinality(ev.pairs \ NotRecommendedPairs)
        /\ ev.evaluated = Cardinality(ev.pairs)

C24_Witness ==
    /\ pc = "eval"
    /\ ev.phase = "pairs"
    /\ ev.ri > 0
    /\ ev.ni = Len(ev.notrec)
    /\ ev.ni >= 2
    /\ ev.counts.fn > 0
    /\ ev.counts.tn > 0
    /\ ev.pi = 2

\* C25: every false negative has a fresh score below the match threshold
\* (its reason reads "Score s below threshold t"); the MatchSet being the
\* output of match_all_patients on the same data, no trial whose score reaches
\* the threshold is counted as not recommended.
C25_FalseNegativeBelowThreshold ==
    (pc = "eval" /\ ev.phase = "pairs" /\ ev.ni > 0) =>
        /\ valid[ev.strict].value => res.score < ev.threshold
        /\ \A i \in 1..ev.ni :
              calculate_match_score(patient, TrialById(trials, ev.notrec[i]),
                                    hashOrder).score < ev.threshold

\* what does hold: a sampled not-recommended trial scores below the threshold
\* unless the patient's list is full (top_k entries)
C25_BelowThresholdUnlessCut ==
    (pc = "eval" /\ ev.phase = "pairs" /\ ev.ni > 0) =>
        \/ res.score < ev.threshold
        \/ Len(all_matches[patient.id]) = DefaultTopK

----------------------------------------------------------------------------
(* Claims about the strict heuristic, checked under SpecStrict *)

\* the four criteria of an entry of details, looked up again in the frames
CriteriaHold(d) ==
    LET p == PatientById(patients, d.patient_id)
        t == TrialById(trials, d.trial_id)
    IN /\ t.age_min <= p.age /\ p.age <= t.age_max
       /\ t.gender = "ALL" \/ Upper(t.gender) = Upper(p.gender)
       /\ calculate_match_score(p, t, hashOrder).score >= 60
       /\ Cardinality(Range(p.condition_keywords.items) \cap Range(t.keywords.items)) >= 2

RECURSIVE FirstFiveOf(_, _)
\* the pairs the strategy has to evaluate for the patients sample[1..n]: the
\* first five cached matches of each
FirstFiveOf(sample, n) ==
    IF n = 0 THEN <<>>
    ELSE LET ms == all_matches[sample[n]]
         IN FirstFiveOf(sample, n - 1)
            \o [i \in 1..Min(5, Len(ms)) |-> <<sample[n], ms[i].nct_id>>]

\* C26: in validate_strict_heuristic the evaluated matches are the first 5
\* cached matches of each sampled patient; each is valid iff age, gender,
\* fresh score >= 60 and keyword overlap >= 2 all hold; accuracy is
\* valid/total (0 when total is 0); the failure breakdown counts each failing
\* criterion on its own, so every invalid match is in at least one of the
\* four categories and the four counts sum to at least the number of invalid
\* matches.
C26_StrictHeuristic ==
    pc = "strict_done" =>
        LET ds == ev.details
            r == ev.result
            f == r.failure_reasons
            invalid == {i \in DOMAIN ds : ~ds[i].overall_valid}
        IN /\ [i \in DOMAIN ds |-> <<ds[i].patient_id, ds[i].trial_id>>]
                 = FirstFiveOf(ev.sample, Len(ev.sample))
           /\ \A i \in DOMAIN ds :
                 /\ ds[i].overall_valid <=> CriteriaHold(ds[i])
                 /\ ev.validation_results[i] = ds[i].overall_valid
           /\ r.total_evaluated = Len(ds)
           /\ r.valid_matches = Len(ds) - Cardinality(invalid)
           /\ r.accuracy = IF Len(ds) = 0 THEN Rat(0, 1)
                                          ELSE Rat(r.valid_matches, Len(ds))
           /\ f.score_too_low = Cardinality({i \in invalid : ~ds[i].score_valid})
           /\ f.age_mismatch = Cardinality({i \in invalid : ~ds[i].age_valid})
           /\ f.gender_mismatch = Cardinality({i \in invalid : ~ds[i].gender_valid})
           /\ f.insufficient_keywords = Cardinality({i \in invalid : ~ds[i].keyword_valid})
           /\ \A i \in invalid :
                 ~ds[i].score_valid \/ ~ds[i].age_valid \/ ~ds[i].gender_valid
                    \/ ~ds[i].keyword_valid
           /\ f.score_too_low + f.age_mismatch + f.gender_mismatch
                 + f.insufficient_keywords >= Cardinality(invalid)

\* a run that cut a list of six at five, found valid and invalid matches, one
\* of them failing on two criteria at once
C26_Witness ==
    /\ pc = "strict_done"
    /\ \E id \in DOMAIN all_matches : Len(all_matches[id]) > 5
    /\ ev.result.valid_matches > 0
    /\ ev.result.valid_matches < ev.result.total_evaluated
    /\ ev.result.failure_reasons.score_too_low
          + ev.result.failure_reasons.age_mismatch
          + ev.result.failure_reasons.gender_mismatch
          + ev.result.failure_reasons.insufficient_keywords
          > ev.result.total_evaluated - ev.result.valid_matches

----------------------------------------------------------------------------
(* Claims about the threshold sweep, checked under SpecSweep *)

\* the number of cached matches the sweep looks at: the first five of each
\* sampled patient
SweepPairs ==
    {c \in (DOMAIN ev.sample) \X (1..5) : c[2] <= Len(all_matches[ev.sample[c[1]]])}

\* the pairs of SweepPairs that pass at the threshold th
SweepPassing(th) ==
    {c \in SweepPairs :
        LET p == PatientById(patients, ev.sample[c[1]])
            t == TrialById(trials, all_matches[ev.sample[c[1]]][c[2]].nct_id)
        IN /\ calculate_match_score(p, t, hashOrder).score >= th
           /\ t.age_min <= p.age /\ p.age <= t.age_max
           /\ t.gender = "ALL" \/ Upper(t.gender) = Upper(p.gender)}

\* C29: analyze_multiple_thresholds evaluates the same patient sample and the
\* same top-5 cached matches for every threshold, so the total is the same
\* for all thresholds and the valid count (fresh score >= threshold, age
\* valid, gender valid) does not increase as the threshold rises through 30,
\* 40, 50, 60, 70, 80.
C29_SweepMonotone ==
    (pc \in {"sweep", "sweep_done"} /\ ev.phase # "sample") =>
        LET rs == ev.results
        IN /\ pc = "sweep_done" => Len(rs) = 6
           /\ \A i \in DOMAIN rs :
                 /\ rs[i].threshold = <<30, 40, 50, 60, 70, 80>>[i]
                 /\ rs[i].total = Cardinality(SweepPairs)
                 /\ rs[i].valid = Cardinality(SweepPassing(rs[i].threshold))
                 /\ rs[i].valid <= rs[i].total
           /\ \A i, j \in DOMAIN rs :
                 i <= j => /\ rs[i].total = rs[j].total
                           /\ rs[i].valid >= rs[j].valid

\* a sweep over two patients, one list cut at five, whose valid count falls
\* twice on the way up
C29_Witness ==
    /\ pc = "sweep_done"
    /\ Len(ev.sample) = 2
    /\ \E id \in DOMAIN all_matches : Len(all_matches[id]) > 5
    /\ ev.results[1].valid > ev.results[4].valid
    /\ ev.results[4].valid > ev.results[6].valid
    /\ ev.results[1].valid < ev.results[1].total

----------------------------------------------------------------------------
(* Claims about repeated validation runs, checked under SpecNegative *)

\* C16: every validation strategy is deterministic under its fixed seed: two
\* runs on the same patients, trials and MatchSet select the same sample of
\* patients and trials and produce the same counts (here: negative-case
\* testing).
C16_RunsAgree ==
    (ev.phase = "returned" /\ ev.run = 2) =>
        /\ ev.sample_patients = ev.first.sample_patients
        /\ ev.sample_trials = ev.first.sample_trials
        /\ ev.result = ev.first.result

\* what does hold: the two runs agree when they drew the same rows
C16_SameSampleSameCounts ==
    (ev.phase = "returned" /\ ev.run = 2
       /\ ev.sample_patients = ev.first.sample_patients
       /\ ev.sample_trials = ev.first.sample_trials) => ev.result = ev.first.result

\* the sampled pairs (row numbers) with the patient's age outside the trial's
\* range
AgePairs ==
    {c \in ev.sample_patients \X ev.sample_trials :
        patients[c[1]].age < trials[c[2]].age_min \/ patients[c[1]].age > trials[c[2]].age_max}

\* the sampled pairs with a trial for the other gender
GenderPairs ==
    {c \in ev.sample_patients \X ev.sample_trials :
        /\ trials[c[2]].gender # "ALL"
        /\ Upper(trials[c[2]].gender) # Upper(patients[c[1]].gender)}

\* the sampled pairs whose fresh score is below 40
LowPairs ==
    {c \in ev.sample_patients \X ev.sample_trials :
        calculate_match_score(patients[c[1]], trials[c[2]], hashOrder).score < 40}

----------------------------------------------------------------------------
(* Claims about cached scores, checked under SpecCached *)

\* the mapping am with every stored score replaced by the score
\* calculate_match_score gives the pair now
Refreshed(am, ps, ts, order) ==
    [id \in DOMAIN am |->
        [i \in DOMAIN am[id] |->
            [am[id][i] EXCEPT !.score =
                calculate_match_score(PatientById(ps, id),
                                      TrialById(ts, am[id][i].nct_id), order).score]]]

\* the counters one sampled patient adds when every trial outside the
\* recommended ones is sampled (there are at most NotRecommendedSample)
CountsOfPatient(p, ts, ms, threshold, strict, order) ==
    LET rec == RecommendedTrials(ms, threshold)
        rest == NotRecommendedIds(ts, rec)
        tp == Cardinality({i \in DOMAIN rec :
                 is_valid_match(p, TrialById(ts, rec[i].nct_id), rec[i].score,
                                strict).value})
        fn == Cardinality({n \in rest :
                 is_valid_match(p, TrialById(ts, n),
                                calculate_match_score(p, TrialById(ts, n), order).score,
                                strict).value})
    IN [tp |-> tp, fp |-> Len(rec) - tp, tn |-> Cardinality(rest) - fn, fn |-> fn]

RECURSIVE CountsOfSample(_, _, _, _, _, _, _)
\* the counters after the sampled patients sample[1..n]
CountsOfSample(sample, n, ps, ts, am, e, order) ==
    IF n = 0 THEN NoCounts
    ELSE LET c == CountsOfSample(sample, n - 1, ps, ts, am, e, order)
             d == CountsOfPatient(PatientById(ps, sample[n]), ts, am[sample[n]],
                                  e.threshold, e.strict, order)
         IN [tp |-> c.tp + d.tp, fp |-> c.fp + d.fp, tn |-> c.tn + d.tn,
             fn |-> c.fn + d.fn]

\* C23: the FP/FN analysis never trusts the cached score: every pair is
\* classified with a newly computed score, so the counters of a run are the
\* ones the same run gives on the MatchSet with the same trials in the same
\* order and the fresh scores stored.
C23_CountsIgnoreStoredScores ==
    pc = "eval_done" =>
        ev.counts = CountsOfSample(ev.sample, Len(ev.sample), patients, trials,
                                   Refreshed(all_matches, patients, trials, hashOrder),
                                   ev, hashOrder)

\* C23, at the call: the score handed to is_valid_match for a recommended
\* trial is the one calculate_match_score gives the pair.
C23_RecommendedScoredAfresh ==
    (pc = "eval" /\ ev.phase = "pairs" /\ ev.ri > 0 /\ ev.ni = 0) =>
        arg = calculate_match_score(patient, trial, hashOrder).score

\* what does hold: the counters are those of the stored scores for the
\* recommended trials and of fresh scores for the others
C23_CountsFollowStoredScores ==
    pc = "eval_done" =>
        ev.counts = CountsOfSample(ev.sample, Len(ev.sample), patients, trials,
                                   all_matches, ev, hashOrder)

----------------------------------------------------------------------------
(* Claims about the ingestion step, checked under SpecIngest *)

\* C22: every Trial record produced by the ingestion step satisfies
\* ageMin <= ageMax: for every eligibility text, extract_age_range returns a
\* pair (min, max) with min <= max.
C22_AgeRangeOrdered ==
    pc = "ingested" =>
        /\ trial.age_min <= trial.age_max
        /\ extract_age_range(ev.criteria_text)[1] <= extract_age_range(ev.criteria_text)[2]

\* what does hold: the record carries the pair as extract_age_range gives it,
\* and a text without a number gets the default range
C22_RangeAsExtracted ==
    pc = "ingested" =>
        /\ <<trial.age_min, trial.age_max>> = extract_age_range(ev.criteria_text)
        /\ (\A i \in DOMAIN ev.criteria_text : ev.criteria_text[i].w # "num")
              => (trial.age_min = 18 /\ trial.age_max = 100)

----------------------------------------------------------------------------
(* Claims about fetch_trials, checked under SpecFetch *)

\* C21: fetch_trials returns (and saves) at most max_studies trials, for
\* every sequence of page responses: whatever the page sizes and whichever
\* page is the last one (no next-page token, empty page, or request error).
C21_AtMostMaxStudies ==
    pc = "fetch_done" =>
        /\ Len(ev.all_trials) <= ev.max_studies
        /\ Len(ev.saved) <= ev.max_studies

\* what does hold: fewer than max_studies trials were held before the last
\* page, so the excess is less than one page
C21_ExcessBelowOnePage ==
    pc = "fetch_done" =>
        /\ ev.saved = ev.all_trials
        /\ Len(ev.all_trials) < ev.max_studies + MaxPage
        /\ (ev.next_page_token /\ ev.page > 0) => Len(ev.all_trials) <= ev.max_studies

----------------------------------------------------------------------------
(* Claims about the derived ratios, checked under SpecMetrics *)

\* a ratio is a number in [0,1] and no division by zero was attempted
InUnitInterval(x) == ~x.err /\ x.d > 0 /\ 0 <= x.n /\ x.n <= x.d

IsZero(x) == ~x.err /\ x.n = 0

\* C11: each derived ratio (precision, recall, F1, accuracy, false-positive
\* rate, false-negative rate) is 0 when its denominator is 0 and lies in [0,1]
\* otherwise; no combination of the four counters raises a division error.
C11_RatiosInUnitInterval ==
    pc = "metrics_done" =>
        LET c == ev.counts
            m == ev.metrics
        IN /\ InUnitInterval(m.precision) /\ InUnitInterval(m.recall)
           /\ InUnitInterval(m.f1_score) /\ InUnitInterval(m.accuracy)
           /\ InUnitInterval(m.fpr) /\ InUnitInterval(m.fnr)
           /\ c.tp + c.fp = 0 => IsZero(m.precision)
           /\ c.tp + c.fn = 0 => IsZero(m.recall)
           /\ (IsZero(m.precision) /\ IsZero(m.recall)) => IsZero(m.f1_score)
           /\ ev.total = 0 => IsZero(m.accuracy)
           /\ c.fp + c.tn = 0 => IsZero(m.fpr)
           /\ c.fn + c.tp = 0 => IsZero(m.fnr)
           /\ c.tp + c.fp > 0 => m.precision.n * (c.tp + c.fp) = c.tp * m.precision.d
           /\ ev.total > 0 => m.accuracy.n * ev.total = (c.tp + c.tn) * m.accuracy.d

C11_Witness ==
    /\ pc = "metrics_done"
    /\ ev.counts.tp = 0 /\ ev.counts.fp = 0 /\ ev.counts.fn = 0 /\ ev.counts.tn > 0
    /\ IsZero(ev.metrics.precision) /\ IsZero(ev.metrics.f1_score)
    /\ ev.metrics.accuracy.n = ev.metrics.accuracy.d

====
